---- MODULE Spec2Model ----
(***************************************************************************)
(* Multi-account pool (src/lib/accounts.ts), credential store              *)
(* (lib/storage) and the request retry loop (src/index.ts) of the          *)
(* opencode OpenAI Codex OAuth plugin.                                     *)
(*                                                                         *)
(* Representation                                                          *)
(*   - time is an integer number of milliseconds (Date.now());             *)
(*   - an absent numeric field (undefined) is NoTime, an absent string     *)
(*     field is Undef;                                                     *)
(*   - a reference to a ManagedAccount object is its 1-based position in   *)
(*     manager.accounts (the array is never reordered or shrunk), the      *)
(*     JavaScript null is NullAcc;                                         *)
(*   - a JavaScript number handed to markRateLimited /                     *)
(*     markAccountCoolingDown is [int |-> n, half |-> b], the value        *)
(*     n + (IF b THEN 1/2 ELSE 0), so that Math.floor is not the identity. *)
(*   - a synchronous stretch of code (between two awaits) is one step and  *)
(*     takes no time; time advances between steps (Tick).                  *)
(***************************************************************************)
EXTENDS Integers, Sequences, FiniteSets, TLC

VARIABLES
    now,        \* Date.now()
    manager,    \* the AccountManager object (cachedAccountManager)
    disk,       \* content of openai-codex-accounts.json
    ret,        \* pool-level specification: the last API call and its result
    pc,         \* retry loop: position of the inbound call
    call,       \* retry loop: locals of the fetch() invocation
    outcome,    \* retry loop: what the inbound call produced
    hist        \* observation of the running session (calls, dispatches, ...)

vars == <<now, manager, disk, ret, pc, call, outcome, hist>>

----------------------------------------------------------------------------
(* Bounds of the model *)

MaxStored == 1
MaxPoolStored == 2
MaxRaw == 3
MaxLines == 3
MaxHelperTicks == 3
MaxConcStored == 0
MaxTimeStored == 1
MaxTimeOps == 2
MaxLegacyAccounts == 2
MaxLegacyOps == 3
MaxToolStored == 2
MaxToolOps == 3
MaxTicks == 1
MaxCalls == 2
MaxOps == 3

(* Time advances in steps of TickMs *)
TickMs == 15000

----------------------------------------------------------------------------
(* Values *)

Undef == "undefined"
NoTime == -1
NullAcc == 0

AUTH_FAILURE_COOLDOWN_MS == 30000

Num(n) == [int |-> n, half |-> FALSE]
MathFloor(x) == x.int
MathMax(a, b) == IF a >= b THEN a ELSE b
MathMin(a, b) == IF a <= b THEN a ELSE b
SetMin(S) == CHOOSE v \in S : \A w \in S : v <= w

(* Access tokens are JWTs; decodeJWT(token)[JWT_CLAIM_PATH].chatgpt_account_id *)
extractAccountId(accessToken) ==
    CASE accessToken = "tokA" -> "idA"
      [] accessToken = "tokB" -> "idB"
      [] OTHER -> Undef

(* x ?? y *)
Coalesce(x, y) == IF x = Undef THEN y ELSE x
CoalesceNum(x, y) == IF x = NoTime THEN y ELSE x

----------------------------------------------------------------------------
(* src/lib/accounts.ts: per-account helpers *)

isRateLimited(account, t) ==
    IF account.rateLimitResetTime = NoTime THEN FALSE
    ELSE t < account.rateLimitResetTime

clearExpiredRateLimit(account, t) ==
    IF account.rateLimitResetTime = NoTime THEN account
    ELSE IF t >= account.rateLimitResetTime
         THEN [account EXCEPT !.rateLimitResetTime = NoTime]
         ELSE account

clearAccountCooldown(account) ==
    [account EXCEPT !.coolingDownUntil = NoTime, !.cooldownReason = Undef]

(* isAccountCoolingDown returns a boolean and clears an expired cooldown:  *)
(* the boolean, and the account after the call.                            *)
isAccountCoolingDown_untilCleared(account, t) == account.coolingDownUntil # NoTime

isAccountCoolingDown(account, t) ==
    IF account.coolingDownUntil = NoTime THEN FALSE
    ELSE IF t >= account.coolingDownUntil THEN FALSE
    ELSE TRUE

afterCoolingDownCheck(account, t) ==
    IF account.coolingDownUntil = NoTime THEN account
    ELSE IF t >= account.coolingDownUntil THEN clearAccountCooldown(account)
    ELSE account

(* The filter callback of getNextAvailable / getMinWaitTime, and the test  *)
(* of getCurrentOrNext:                                                    *)
(*   clearExpiredRateLimit(a);                                             *)
(*   return !isRateLimited(a) && !this.isAccountCoolingDown(a);            *)
(* && short-circuits: a rate-limited account is not asked for its cooldown *)
(* and so keeps an expired one.                                            *)
availableTest_rateLimitOnly(account, t) ==
    LET a1 == clearExpiredRateLimit(account, t)
    IN  ~isRateLimited(a1, t)

availableTest(account, t) ==
    LET a1 == clearExpiredRateLimit(account, t)
    IN  ~isRateLimited(a1, t) /\ ~isAccountCoolingDown(a1, t)

afterAvailableTest(account, t) ==
    LET a1 == clearExpiredRateLimit(account, t)
    IN  IF isRateLimited(a1, t) THEN a1 ELSE afterCoolingDownCheck(a1, t)

PosSeq(n) == [i \in 1..n |-> i]

----------------------------------------------------------------------------
(* src/lib/accounts.ts: AccountManager methods. Each takes the manager m   *)
(* and the time t and yields the manager after the call (field m) and the  *)
(* returned value (field ret).                                             *)

getAccountCount(m) == Len(m.accounts)

getCurrentAccount(m) ==
    IF m.activeIndex < 0 \/ m.activeIndex >= Len(m.accounts) THEN NullAcc
    ELSE m.activeIndex + 1

getNextAvailable_noFilter(m, t) ==
    LET n == Len(m.accounts)
    IN  IF n = 0
        THEN [m |-> m, ret |-> NullAcc]
        ELSE LET p == (m.cursor % n) + 1
             IN  [m |-> [m EXCEPT !.accounts[p].lastUsed = t, !.cursor = m.cursor + 1],
                  ret |-> p]

getNextAvailable(m, t) ==
    LET n == Len(m.accounts)
        accs == [i \in 1..n |-> afterAvailableTest(m.accounts[i], t)]
        available == SelectSeq(PosSeq(n), LAMBDA i : availableTest(m.accounts[i], t))
    IN  IF Len(available) = 0
        THEN [m |-> [m EXCEPT !.accounts = accs], ret |-> NullAcc]
        ELSE LET p == available[(m.cursor % Len(available)) + 1]
             IN  [m |-> [m EXCEPT !.accounts = [accs EXCEPT ![p].lastUsed = t],
                                  !.cursor = m.cursor + 1],
                  ret |-> p]

getCurrentOrNext_reserving(m, t) ==
    LET current == getCurrentAccount(m)
        r == IF current # NullAcc /\ availableTest(m.accounts[current], t)
             THEN [m |-> m, ret |-> current]
             ELSE getNextAvailable(m, t)
    IN  IF r.ret # NullAcc
        THEN [m |-> [r.m EXCEPT !.accounts[r.ret].lastUsed = t,
                                !.accounts[r.ret].coolingDownUntil = t + 1,
                                !.activeIndex = r.m.accounts[r.ret].index],
              ret |-> r.ret]
        ELSE r

getCurrentOrNext_unchecked(m, t) ==
    LET current == getCurrentAccount(m)
    IN  IF current # NullAcc
        THEN [m |-> [m EXCEPT !.accounts[current].lastUsed = t], ret |-> current]
        ELSE getNextAvailable(m, t)

getCurrentOrNext(m, t) ==
    LET current == getCurrentAccount(m)
        m1 == IF current = NullAcc THEN m
              ELSE [m EXCEPT !.accounts[current] = afterAvailableTest(m.accounts[current], t)]
    IN  IF current # NullAcc /\ availableTest(m.accounts[current], t)
        THEN [m |-> [m1 EXCEPT !.accounts[current].lastUsed = t], ret |-> current]
        ELSE LET r == getNextAvailable(m1, t)
             IN  IF r.ret # NullAcc
                 THEN [m |-> [r.m EXCEPT !.activeIndex = r.m.accounts[r.ret].index],
                       ret |-> r.ret]
                 ELSE r

markSwitched(m, p, reason) ==
    [m EXCEPT !.accounts[p].lastSwitchReason = reason,
              !.activeIndex = m.accounts[p].index]

markRateLimited(m, p, retryAfterMs, t) ==
    LET retryMs == MathMax(0, MathFloor(retryAfterMs))
    IN  [m EXCEPT !.accounts[p].rateLimitResetTime = t + retryMs]

markAccountCoolingDown_sharedWindow(m, p, cooldownMs, reason, t) ==
    LET ms == MathMax(0, MathFloor(cooldownMs))
    IN  [m EXCEPT !.accounts[p].rateLimitResetTime = t + ms,
                  !.accounts[p].coolingDownUntil = t + ms,
                  !.accounts[p].cooldownReason = reason]

markAccountCoolingDown(m, p, cooldownMs, reason, t) ==
    LET ms == MathMax(0, MathFloor(cooldownMs))
    IN  [m EXCEPT !.accounts[p].coolingDownUntil = t + ms,
                  !.accounts[p].cooldownReason = reason]

setActiveIndex(m, index, t) ==
    IF index < 0 \/ index >= Len(m.accounts)
    THEN [m |-> m, ret |-> NullAcc]
    ELSE [m |-> [m EXCEPT !.activeIndex = index,
                          !.accounts[index + 1].lastUsed = t,
                          !.accounts[index + 1].lastSwitchReason = "rotation"],
          ret |-> index + 1]

getMinWaitTime(m, t) ==
    LET n == Len(m.accounts)
        accs == [i \in 1..n |-> afterAvailableTest(m.accounts[i], t)]
        available == SelectSeq(PosSeq(n), LAMBDA i : availableTest(m.accounts[i], t))
        waitTimes ==
            { MathMax(0, accs[i].rateLimitResetTime - t) :
                  i \in { j \in 1..n : accs[j].rateLimitResetTime # NoTime } }
            \cup
            { MathMax(0, accs[i].coolingDownUntil - t) :
                  i \in { j \in 1..n : accs[j].coolingDownUntil # NoTime } }
        m1 == [m EXCEPT !.accounts = accs]
    IN  IF Len(available) > 0 THEN [m |-> m1, ret |-> 0]
        ELSE IF waitTimes # {} THEN [m |-> m1, ret |-> SetMin(waitTimes)]
        ELSE [m |-> m1, ret |-> 0]

----------------------------------------------------------------------------
(* lib/storage: the durable store.                                         *)
(* The file is [content, version, accountsIsList, accounts, activeIndex]:  *)
(* content is "missing" (ENOENT), "malformed" (JSON.parse throws) or       *)
(* "object". A loaded store is [isNull, version, accounts, activeIndex].   *)

NullStore == [isNull |-> TRUE, version |-> 0, accounts |-> <<>>, activeIndex |-> 0]

MissingFile ==
    [content |-> "missing", version |-> 0, accountsIsList |-> FALSE,
     accounts |-> <<>>, activeIndex |-> 0]

(* String.prototype.trim on the strings of the model *)
Trim(s) == IF s = " " THEN "" ELSE s

(* JavaScript truthiness of an optional string *)
Truthy(s) == s # Undef /\ s # ""

(* a.accountId || a.refreshToken *)
toAccountKey(account) ==
    IF Truthy(account.accountId) THEN account.accountId ELSE account.refreshToken

(* x || 0 for an optional number *)
OrZero(x) == IF x = NoTime THEN 0 ELSE x

(* TRUE iff selectNewestAccount(current, candidate) returns candidate *)
selectNewestAccount_lastUsedOnly(current, candidate) ==
    OrZero(candidate.lastUsed) >= OrZero(current.lastUsed)

selectNewestAccount(current, candidate) ==
    LET currentLastUsed == OrZero(current.lastUsed)
        candidateLastUsed == OrZero(candidate.lastUsed)
        currentAddedAt == OrZero(current.addedAt)
        candidateAddedAt == OrZero(candidate.addedAt)
    IN  IF candidateLastUsed > currentLastUsed THEN TRUE
        ELSE IF candidateLastUsed < currentLastUsed THEN FALSE
        ELSE candidateAddedAt >= currentAddedAt

(* The first loop of deduplicateAccounts: keyToIndex after positions i..n *)
RECURSIVE DedupScan(_, _, _)
DedupScan(accounts, i, keyToIndex) ==
    IF i > Len(accounts) THEN keyToIndex
    ELSE LET account == accounts[i]
             key == toAccountKey(account)
         IN  IF ~Truthy(key) THEN DedupScan(accounts, i + 1, keyToIndex)
             ELSE IF key \notin DOMAIN keyToIndex
             THEN DedupScan(accounts, i + 1, keyToIndex @@ (key :> i))
             ELSE LET existingIndex == keyToIndex[key]
                      newest == selectNewestAccount(accounts[existingIndex], account)
                  IN  DedupScan(accounts, i + 1,
                          [keyToIndex EXCEPT ![key] = IF newest THEN i ELSE existingIndex])

deduplicateAccounts_shortLoop(accounts) ==
    LET keyToIndex == DedupScan(accounts, 1, <<>>)
        indicesToKeep == { keyToIndex[k] : k \in DOMAIN keyToIndex }
        kept == SelectSeq(PosSeq(Len(accounts)),
                          LAMBDA i : i \in indicesToKeep /\ i < Len(accounts))
    IN  [j \in 1..Len(kept) |-> accounts[kept[j]]]

deduplicateAccounts(accounts) ==
    LET keyToIndex == DedupScan(accounts, 1, <<>>)
        indicesToKeep == { keyToIndex[k] : k \in DOMAIN keyToIndex }
        kept == SelectSeq(PosSeq(Len(accounts)), LAMBDA i : i \in indicesToKeep)
    IN  [j \in 1..Len(kept) |-> accounts[kept[j]]]

clampIndex(index, length) ==
    IF length <= 0 THEN 0 ELSE MathMax(0, MathMin(index, length - 1))

extractActiveKey_noKey(accounts, activeIndex) == Undef

(* extractActiveKey: Undef when there is no such record or it has no key *)
extractActiveKey(accounts, activeIndex) ==
    IF activeIndex < 0 \/ activeIndex >= Len(accounts) THEN Undef
    ELSE LET candidate == accounts[activeIndex + 1]
             accountId == IF candidate.accountId # Undef /\ Trim(candidate.accountId) # ""
                          THEN candidate.accountId ELSE Undef
             refreshToken == IF candidate.refreshToken # Undef /\ Trim(candidate.refreshToken) # ""
                             THEN candidate.refreshToken ELSE Undef
         IN  IF Truthy(accountId) THEN accountId ELSE refreshToken

FindIndex(accounts, key) ==
    LET hits == { i \in 1..Len(accounts) : toAccountKey(accounts[i]) = key }
    IN  IF hits = {} THEN -1 ELSE SetMin(hits) - 1

normalizeAccountStorage(data) ==
    IF data.content # "object" THEN NullStore
    ELSE IF data.version # 1 THEN NullStore
    ELSE IF ~data.accountsIsList THEN NullStore
    ELSE LET rawAccounts == data.accounts
             activeIndexValue == IF data.activeIndex = NoTime THEN 0 ELSE data.activeIndex
             rawActiveIndex == clampIndex(activeIndexValue, Len(rawAccounts))
             activeKey == extractActiveKey(rawAccounts, rawActiveIndex)
             validAccounts == SelectSeq(rawAccounts, LAMBDA a : a.refreshToken # Undef)
             deduplicatedAccounts == deduplicateAccounts(validAccounts)
             mappedIndex == IF activeKey = Undef THEN -1
                            ELSE FindIndex(deduplicatedAccounts, activeKey)
             activeIndex ==
                 IF Len(deduplicatedAccounts) = 0 THEN 0
                 ELSE IF activeKey # Undef /\ mappedIndex >= 0 THEN mappedIndex
                 ELSE clampIndex(rawActiveIndex, Len(deduplicatedAccounts))
         IN  [isNull |-> FALSE, version |-> 1,
              accounts |-> deduplicatedAccounts, activeIndex |-> activeIndex]

(* fs.readFile followed by JSON.parse: the error thrown, if any. The file  *)
(* is missing, unreadable, not JSON, the JSON literal null, or an object.  *)
readFileAndParse(file) ==
    IF file.content = "missing" THEN [threw |-> TRUE, code |-> "ENOENT"]
    ELSE IF file.content = "unreadable" THEN [threw |-> TRUE, code |-> "EACCES"]
    ELSE IF file.content = "malformed" THEN [threw |-> TRUE, code |-> Undef]
    ELSE [threw |-> FALSE, code |-> Undef]

catchReturnsNull_enoentOnly(code) == code = "ENOENT"

(* the catch block of loadAccounts: TRUE iff it returns null for the error *)
catchReturnsNull(code) ==
    IF code = "ENOENT" THEN TRUE
    ELSE TRUE

(* loadAccounts with its way of completing: threw iff an error escapes *)
loadAccountsOutcome(file) ==
    LET parsed == readFileAndParse(file)
    IN  IF parsed.threw
        THEN [threw |-> ~catchReturnsNull(parsed.code), value |-> NullStore]
        ELSE [threw |-> FALSE, value |-> normalizeAccountStorage(file)]

loadAccounts(file) == loadAccountsOutcome(file).value

(* src/lib/accounts/storage.ts: the earlier loadAccounts, which reads      *)
(* data.accounts of whatever was parsed and returns the data as it is      *)
loadAccountsLegacyOutcome(file) ==
    LET parsed == readFileAndParse(file)
        caught == [threw |-> FALSE, value |-> NullStore]
    IN  IF parsed.threw THEN caught
        ELSE IF file.content # "object" THEN caught
        ELSE IF ~file.accountsIsList THEN [threw |-> FALSE, value |-> NullStore]
        ELSE IF file.version # 1 THEN [threw |-> FALSE, value |-> NullStore]
        ELSE LET activeIndex ==
                     IF file.activeIndex < 0 \/ file.activeIndex >= Len(file.accounts)
                     THEN 0 ELSE file.activeIndex
             IN  [threw |-> FALSE,
                  value |-> [isNull |-> FALSE, version |-> 1,
                             accounts |-> file.accounts, activeIndex |-> activeIndex]]

(* what saveAccounts writes for the storage object of saveToDisk *)
saveToDisk(m) ==
    [content |-> "object", version |-> 1, accountsIsList |-> TRUE,
     accounts |-> [i \in 1..Len(m.accounts) |->
         [accountId |-> m.accounts[i].accountId,
          refreshToken |-> m.accounts[i].refreshToken,
          addedAt |-> m.accounts[i].addedAt,
          lastUsed |-> m.accounts[i].lastUsed,
          lastSwitchReason |-> m.accounts[i].lastSwitchReason,
          rateLimitResetTime |-> m.accounts[i].rateLimitResetTime,
          coolingDownUntil |-> m.accounts[i].coolingDownUntil,
          cooldownReason |-> m.accounts[i].cooldownReason]],
     activeIndex |-> MathMax(0, m.activeIndex)]

----------------------------------------------------------------------------
(* src/lib/accounts.ts: the constructor.                                   *)
(* authFallback is [present, access, refresh, expires].                    *)

NoAuth == [present |-> FALSE, access |-> "", refresh |-> "", expires |-> 0]

clampNonNegativeInt(value, fallback) ==
    IF value = NoTime THEN fallback ELSE IF value < 0 THEN 0 ELSE value

matchesFallback_refreshOnly(account, authFallback) ==
    authFallback.present /\ account.refreshToken = authFallback.refresh

matchesFallback(account, authFallback) ==
    LET fallbackAccountId == extractAccountId(authFallback.access)
    IN  authFallback.present
        /\ (   (Truthy(fallbackAccountId) /\ account.accountId = fallbackAccountId)
            \/ account.refreshToken = authFallback.refresh)

(* the callback of stored.accounts.map for the record at 0-based index *)
MapStored(account, index, authFallback, baseNow) ==
    LET fallbackAccountId == extractAccountId(authFallback.access)
        matches == matchesFallback(account, authFallback)
    IN  [index |-> index,
         accountId |-> IF matches THEN Coalesce(fallbackAccountId, account.accountId)
                       ELSE account.accountId,
         refreshToken |-> IF matches THEN authFallback.refresh ELSE account.refreshToken,
         access |-> IF matches THEN authFallback.access ELSE Undef,
         expires |-> IF matches THEN authFallback.expires ELSE NoTime,
         addedAt |-> clampNonNegativeInt(account.addedAt, baseNow),
         lastUsed |-> clampNonNegativeInt(account.lastUsed, 0),
         lastSwitchReason |-> account.lastSwitchReason,
         rateLimitResetTime |-> account.rateLimitResetTime,
         coolingDownUntil |-> account.coolingDownUntil,
         cooldownReason |-> account.cooldownReason]

FallbackAccount(index, authFallback, addedAt, lastUsed) ==
    [index |-> index,
     accountId |-> extractAccountId(authFallback.access),
     refreshToken |-> authFallback.refresh,
     access |-> authFallback.access,
     expires |-> authFallback.expires,
     addedAt |-> addedAt,
     lastUsed |-> lastUsed,
     lastSwitchReason |-> "initial",
     rateLimitResetTime |-> NoTime,
     coolingDownUntil |-> NoTime,
     cooldownReason |-> Undef]

EmptyManager ==
    [accounts |-> <<>>, cursor |-> 0, activeIndex |-> -1,
     lastToastAccountIndex |-> -1, lastToastTime |-> 0]

AccountManager(authFallback, stored, t) ==
    IF ~stored.isNull /\ Len(stored.accounts) > 0
    THEN LET fallbackAccountId == extractAccountId(authFallback.access)
             kept == SelectSeq(PosSeq(Len(stored.accounts)),
                               LAMBDA i : Truthy(stored.accounts[i].refreshToken))
             mapped == [j \in 1..Len(kept) |->
                           MapStored(stored.accounts[kept[j]], kept[j] - 1, authFallback, t)]
             hasMatchingFallback ==
                 authFallback.present
                 /\ \E j \in 1..Len(mapped) :
                        \/ mapped[j].refreshToken = authFallback.refresh
                        \/ (Truthy(fallbackAccountId) /\ mapped[j].accountId = fallbackAccountId)
             accounts == IF authFallback.present /\ ~hasMatchingFallback
                         THEN Append(mapped, FallbackAccount(Len(mapped), authFallback, t, t))
                         ELSE mapped
         IN  IF Len(accounts) > 0
             THEN LET nextIndex == clampNonNegativeInt(stored.activeIndex, 0)
                  IN  [EmptyManager EXCEPT !.accounts = accounts,
                                           !.activeIndex = nextIndex % Len(accounts),
                                           !.cursor = nextIndex % Len(accounts)]
             ELSE EmptyManager
    ELSE IF authFallback.present
    THEN [EmptyManager EXCEPT !.accounts = <<FallbackAccount(0, authFallback, t, 0)>>,
                              !.activeIndex = 0, !.cursor = 0]
    ELSE EmptyManager

loadFromDisk(authFallback, file, t) == AccountManager(authFallback, loadAccounts(file), t)

----------------------------------------------------------------------------
(* Inputs: the store files and host credentials a session can start from   *)

StoredRecord(accountId, refreshToken, lastUsed, rateLimitResetTime, coolingDownUntil, cooldownReason) ==
    [accountId |-> accountId, refreshToken |-> refreshToken,
     addedAt |-> 0, lastUsed |-> lastUsed, lastSwitchReason |-> Undef,
     rateLimitResetTime |-> rateLimitResetTime,
     coolingDownUntil |-> coolingDownUntil, cooldownReason |-> cooldownReason]

StoredRecords ==
    { StoredRecord(Undef, "r1", 0, NoTime, NoTime, Undef),
      StoredRecord("idB", "r2", 0, NoTime, NoTime, Undef),
      StoredRecord("idB", "r3", 0, 2 * TickMs, TickMs, "auth-failure"),
      StoredRecord("idA", "", 0, NoTime, NoTime, Undef) }

RECURSIVE SeqsUpTo(_, _)
SeqsUpTo(S, n) ==
    IF n = 0 THEN { <<>> }
    ELSE LET shorter == SeqsUpTo(S, n - 1)
         IN  shorter \cup { Append(q, e) : q \in shorter, e \in S }

ObjectFile(accounts, activeIndex) ==
    [content |-> "object", version |-> 1, accountsIsList |-> TRUE,
     accounts |-> accounts, activeIndex |-> activeIndex]

FilesUpTo(n) ==
    { MissingFile, [MissingFile EXCEPT !.content = "malformed"] }
    \cup { ObjectFile(accounts, activeIndex) :
               accounts \in SeqsUpTo(StoredRecords, n),
               activeIndex \in 0..(n - 1) }

InitFiles == FilesUpTo(MaxStored)

PoolFiles == FilesUpTo(MaxPoolStored)

HostAuth(access, refresh, expires) ==
    [present |-> TRUE, access |-> access, refresh |-> refresh, expires |-> expires]

HostAuths ==
    { HostAuth("tokA", "r1", TickMs),
      HostAuth("", "r3", 0),
      HostAuth("tokN", "r2", 3 * TickMs) }

----------------------------------------------------------------------------
(* Time *)

(* One tick is TickMs; time passes between calls and while an upstream     *)
(* request is in flight; steps that wait for the local file system         *)
(* (saveToDisk) or the token endpoint complete within the tick in which    *)
(* they start.                                                             *)
Tick ==
    /\ now < MaxTicks * TickMs
    /\ pc \in { "idle", "dispatch", "done", "threw" }
    /\ now' = now + TickMs
    /\ hist' = [hist EXCEPT !.round = FALSE, !.visits = <<>>]
    /\ UNCHANGED <<manager, disk, ret, pc, call, outcome>>

----------------------------------------------------------------------------
(* Observations used to state the properties of the pool *)

(* data model: available iff neither window lies in the future *)
IsFree(account, t) ==
    /\ ~(account.rateLimitResetTime # NoTime /\ t < account.rateLimitResetTime)
    /\ ~(account.coolingDownUntil # NoTime /\ t < account.coolingDownUntil)

FreeSet(m, t) == { i \in 1..Len(m.accounts) : IsFree(m.accounts[i], t) }

(* ends of the windows that are still running at t *)
OutstandingEnds(m, t) ==
    { m.accounts[i].rateLimitResetTime :
          i \in { j \in 1..Len(m.accounts) : m.accounts[j].rateLimitResetTime # NoTime
                                            /\ t < m.accounts[j].rateLimitResetTime } }
    \cup
    { m.accounts[i].coolingDownUntil :
          i \in { j \in 1..Len(m.accounts) : m.accounts[j].coolingDownUntil # NoTime
                                            /\ t < m.accounts[j].coolingDownUntil } }

NoRet == [op |-> "none", acc |-> NullAcc, value |-> 0, at |-> 0,
          count |-> 0, free |-> {}, ends |-> {}]

Observe(op, acc, value) ==
    [op |-> op, acc |-> acc, value |-> value, at |-> now,
     count |-> Len(manager.accounts),
     free |-> FreeSet(manager, now), ends |-> OutstandingEnds(manager, now)]

IdleCall ==
    [accountCount |-> 0, attempted |-> {}, account |-> NullAcc,
     accountAuth |-> [type |-> "oauth", access |-> "", refresh |-> "", expires |-> 0],
     storage |-> MissingFile]

(* outcome.free and outcome.at observe the synthesized response: the       *)
(* accounts available, and the time, when it was built                     *)
NoOutcome ==
    [kind |-> "none", status |-> 0, account |-> NullAcc, waitMs |-> 0, cause |-> "none",
     free |-> {}, at |-> 0]

(* hist observes the running call: loop iterations, accounts dispatched   *)
(* to, refreshes issued, requests in flight, the accounts available when   *)
(* it started, the accounts that failed locally, the last upstream status  *)
(* with its retry hint and time, the account whose 429 was just handled.   *)
(* round and visits observe the session: round holds while the session     *)
(* started with every account available and every account dispatched to    *)
(* was answered at once by a 429 with a positive retry hint; visits are     *)
(* the accounts dispatched to in that round, in order.                     *)
NoHist ==
    [calls |-> 0, iterations |-> 0, dispatched |-> <<>>, refreshes |-> 0, inFlight |-> 0,
     startFree |-> {}, failed |-> {}, upstream |-> 0, retryMs |-> 0, upstreamAt |-> 0,
     handled |-> NullAcc, round |-> FALSE, visits |-> <<>>, body |-> "none"]

EndRound(h) == [h EXCEPT !.round = FALSE, !.visits = <<>>]

----------------------------------------------------------------------------
(* Specification of the pool alone: any sequence of calls of the public    *)
(* methods of AccountManager on a pool built by the constructor.           *)

RetryNumbers == { [int |-> -1, half |-> TRUE], Num(2 * TickMs) }
CooldownNumbers == { [int |-> TickMs, half |-> TRUE] }

InitPool ==
    /\ now = 0
    /\ \E file \in PoolFiles, authFallback \in { NoAuth, HostAuth("tokA", "r1", TickMs) } :
          manager = AccountManager(authFallback, loadAccounts(file), 0)
    /\ disk = MissingFile
    /\ ret = NoRet
    /\ pc = "idle"
    /\ call = IdleCall
    /\ outcome = NoOutcome
    /\ hist = NoHist

PoolGetCurrentOrNext ==
    /\ hist.calls < MaxOps
    /\ LET r == getCurrentOrNext(manager, now)
       IN  /\ manager' = r.m
           /\ ret' = Observe("getCurrentOrNext", r.ret, 0)
    /\ hist' = [hist EXCEPT !.calls = hist.calls + 1]
    /\ UNCHANGED <<now, disk, pc, call, outcome>>

PoolGetMinWaitTime ==
    /\ hist.calls < MaxOps
    /\ LET r == getMinWaitTime(manager, now)
       IN  /\ manager' = r.m
           /\ ret' = Observe("getMinWaitTime", NullAcc, r.ret)
    /\ hist' = [hist EXCEPT !.calls = hist.calls + 1]
    /\ UNCHANGED <<now, disk, pc, call, outcome>>

PoolMarkRateLimited ==
    /\ hist.calls < MaxOps
    /\ \E p \in 1..Len(manager.accounts), x \in RetryNumbers :
          /\ manager' = markRateLimited(manager, p, x, now)
          /\ ret' = Observe("markRateLimited", p, x.int)
    /\ hist' = [hist EXCEPT !.calls = hist.calls + 1]
    /\ UNCHANGED <<now, disk, pc, call, outcome>>

PoolMarkAccountCoolingDown ==
    /\ hist.calls < MaxOps
    /\ \E p \in 1..Len(manager.accounts), x \in CooldownNumbers,
          reason \in { "network-error" } :
          /\ manager' = markAccountCoolingDown(manager, p, x, reason, now)
          /\ ret' = Observe("markAccountCoolingDown", p, x.int)
    /\ hist' = [hist EXCEPT !.calls = hist.calls + 1]
    /\ UNCHANGED <<now, disk, pc, call, outcome>>

PoolMarkSwitched ==
    /\ hist.calls < MaxOps
    /\ \E p \in 1..Len(manager.accounts) :
          /\ manager' = markSwitched(manager, p, "rate-limit")
          /\ ret' = NoRet
    /\ hist' = [hist EXCEPT !.calls = hist.calls + 1]
    /\ UNCHANGED <<now, disk, pc, call, outcome>>

PoolSetActiveIndex ==
    /\ hist.calls < MaxOps
    /\ \E index \in -1..Len(manager.accounts) :
          LET r == setActiveIndex(manager, index, now)
          IN  /\ manager' = r.m
              /\ ret' = NoRet
    /\ hist' = [hist EXCEPT !.calls = hist.calls + 1]
    /\ UNCHANGED <<now, disk, pc, call, outcome>>

NextPool ==
    \/ PoolGetCurrentOrNext
    \/ PoolGetMinWaitTime
    \/ PoolMarkRateLimited
    \/ PoolMarkAccountCoolingDown
    \/ PoolMarkSwitched
    \/ PoolSetActiveIndex
    \/ Tick

SpecPool == InitPool /\ [][NextPool]_vars

(* The pool while time advances: nowMs() is the wall clock, which passes   *)
(* whatever the pool is asked to do. At most MaxTimeOps calls are made, on *)
(* a pool of at most MaxTimeStored stored accounts and the host's.         *)
PoolTimeFiles == FilesUpTo(MaxTimeStored)

InitPoolTime ==
    /\ now = 0
    /\ \E file \in PoolTimeFiles, authFallback \in { NoAuth, HostAuth("tokA", "r1", TickMs) } :
          manager = AccountManager(authFallback, loadAccounts(file), 0)
    /\ disk = MissingFile
    /\ ret = NoRet
    /\ pc = "idle"
    /\ call = IdleCall
    /\ outcome = NoOutcome
    /\ hist = NoHist

NextPoolTime ==
    \/ hist.calls < MaxTimeOps /\ NextPool
    \/ Tick

SpecPoolTime == InitPoolTime /\ [][NextPoolTime]_vars /\ WF_vars(Tick)

----------------------------------------------------------------------------
(* Specification of the store and of the construction of the pool: a raw   *)
(* file is loaded, its records are deduplicated, a pool is built from it   *)
(* and a host credential. disk is the raw file, ret the observation of     *)
(* the last operation.                                                     *)

RawRecord(accountId, refreshToken, lastUsed, addedAt) ==
    [StoredRecord(accountId, refreshToken, lastUsed, NoTime, NoTime, Undef)
        EXCEPT !.addedAt = addedAt]

(* records found in a file: with and without accountId, sharing keys,     *)
(* with blank strings, and an entry that is no account record at all      *)
RawRecords ==
    { RawRecord("idA", "r1", 1, 0),
      RawRecord("idA", "r2", 0, 1),
      RawRecord("idA", "r3", 1, 1),
      RawRecord(Undef, "r1", 0, 0),
      RawRecord("", "r1", 1, 0),
      RawRecord(" ", "r2", 0, 0),
      RawRecord("idA", "", 0, 0),
      RawRecord(Undef, Undef, 0, 0) }

(* activeIndex -1 is the sentinel NoTime: the field is not a finite number *)
RawFiles ==
    { [MissingFile EXCEPT !.content = content] :
         content \in { "missing", "unreadable", "malformed", "null" } }
    \cup { [content |-> "object", version |-> version, accountsIsList |-> isList,
            accounts |-> accounts, activeIndex |-> activeIndex] :
               version \in { 1, 2 }, isList \in BOOLEAN,
               accounts \in SeqsUpTo(RawRecords, MaxRaw),
               activeIndex \in -1..MaxRaw }

InitStore ==
    /\ now = 0
    /\ disk \in { f \in RawFiles : f.version = 2 \/ ~f.accountsIsList => f.activeIndex = 0 }
    /\ manager = EmptyManager
    /\ ret = NoRet
    /\ pc = "idle"
    /\ call = IdleCall
    /\ outcome = NoOutcome
    /\ hist = NoHist

(* loadAccounts() on the file *)
StoreLoad ==
    /\ ret.op = "none"
    /\ LET result == loadAccountsOutcome(disk)
       IN  ret' = [op |-> "loadAccounts", threw |-> result.threw, stored |-> result.value]
    /\ UNCHANGED <<now, manager, disk, pc, call, outcome, hist>>

(* the loadAccounts() of src/lib/accounts/storage.ts on the file *)
StoreLoadLegacy ==
    /\ ret.op = "none"
    /\ LET result == loadAccountsLegacyOutcome(disk)
       IN  ret' = [op |-> "loadAccountsLegacy", threw |-> result.threw,
                   stored |-> result.value]
    /\ UNCHANGED <<now, manager, disk, pc, call, outcome, hist>>

(* deduplicateAccounts() on the records of the file, and on its own result *)
StoreDeduplicate ==
    /\ ret.op = "none"
    /\ LET output == deduplicateAccounts(disk.accounts)
       IN  ret' = [op |-> "deduplicateAccounts", input |-> disk.accounts,
                   output |-> output, again |-> deduplicateAccounts(output)]
    /\ UNCHANGED <<now, manager, disk, pc, call, outcome, hist>>

(* AccountManager.loadFromDisk(authFallback) *)
StoreConstruct ==
    /\ ret.op = "none"
    /\ \E authFallback \in HostAuths \cup { NoAuth } :
          /\ manager' = loadFromDisk(authFallback, disk, now)
          /\ ret' = [op |-> "constructor", auth |-> authFallback,
                     stored |-> loadAccounts(disk)]
    /\ UNCHANGED <<now, disk, pc, call, outcome, hist>>

NextStore ==
    \/ StoreLoad
    \/ StoreLoadLegacy
    \/ StoreDeduplicate
    \/ StoreConstruct

SpecStore == InitStore /\ [][NextStore]_vars

----------------------------------------------------------------------------
(* src/lib/accounts.ts: credentials and notifications *)

toAuthDetails(account) ==
    [type |-> "oauth",
     access |-> Coalesce(account.access, ""),
     refresh |-> account.refreshToken,
     expires |-> CoalesceNum(account.expires, 0)]

updateFromAuth(m, p, auth) ==
    [m EXCEPT !.accounts[p].refreshToken = auth.refresh,
              !.accounts[p].access = auth.access,
              !.accounts[p].expires = auth.expires,
              !.accounts[p].accountId =
                  Coalesce(extractAccountId(auth.access), m.accounts[p].accountId)]

shouldShowAccountToast_anyIndex(m, accountIndex, debounceMs, t) ==
    ~(t - m.lastToastTime < debounceMs)

shouldShowAccountToast(m, accountIndex, debounceMs, t) ==
    ~(accountIndex = m.lastToastAccountIndex /\ t - m.lastToastTime < debounceMs)

markToastShown(m, accountIndex, t) ==
    [m EXCEPT !.lastToastAccountIndex = accountIndex, !.lastToastTime = t]

TOAST_DEBOUNCE_MS == 30000

(* fetch-helpers: auth.type !== "oauth" || !auth.access || auth.expires < Date.now() *)
shouldRefreshToken(auth, t) ==
    auth.type # "oauth" \/ auth.access = "" \/ auth.expires < t

----------------------------------------------------------------------------
(* Upstream and collaborators of the retry loop *)

(* statuses the upstream answers with *)
Statuses == { 200, 429, 500 }

(* retry-after header of a 429, in seconds; NoTime: no such header *)
RetryAfterHeaders == { NoTime, 0, 30 }

DEFAULT_RETRY_AFTER_MS == 60000

(* The classification index.ts destructures from handleErrorResponse:      *)
(* { response, rateLimit }, rateLimit = { retryAfterMs } for a 429.        *)
handleErrorResponse(status, retryAfter) ==
    [status |-> status,
     rateLimit |-> status = 429,
     retryAfterMs |-> IF retryAfter = NoTime THEN DEFAULT_RETRY_AFTER_MS
                      ELSE retryAfter * 1000]

(* access tokens a successful refresh hands out, valid for TokenLifetimeMs *)
RefreshedAccess == { "tokA" }
TokenLifetimeMs == 2 * TickMs

----------------------------------------------------------------------------
(* src/index.ts: the loader and the fetch() retry loop.                    *)
(* pc: "idle" -> "loop" -> ("refresh" -> "saveRefreshed")? -> "dispatch"   *)
(*     -> ("success" ->)? "done", with "saveCooldown" / "saveRateLimit"    *)
(*     leading back to "loop", and "threw" when an exception leaves       *)
(*     fetch().                                                            *)

needsPersist(m, storedSnapshot, refreshToken) ==
    \/ storedSnapshot.isNull
    \/ Len(storedSnapshot.accounts) # getAccountCount(m)
    \/ (refreshToken # ""
        /\ ~\E i \in 1..Len(storedSnapshot.accounts) :
               storedSnapshot.accounts[i].refreshToken = refreshToken)

Init ==
    /\ now = 0
    /\ \E file \in InitFiles, auth \in HostAuths :
          LET accountManager == loadFromDisk(auth, file, 0)
          IN  /\ manager = accountManager
              /\ disk = IF needsPersist(accountManager, loadAccounts(file), auth.refresh)
                        THEN saveToDisk(accountManager)
                        ELSE file
              /\ getAccountCount(accountManager) # 0
    /\ ret = NoRet
    /\ pc = "idle"
    /\ call = IdleCall
    /\ outcome = NoOutcome
    /\ hist = [NoHist EXCEPT !.round = (FreeSet(manager, 0) = DOMAIN manager.accounts)]

(* the body of the inbound call: a JSON object, or text that is no JSON *)
InboundBodies == { "json", "unparseable" }

(* line 395: JSON.parse(init.body), TRUE iff it returns *)
bodyParses(body) == body # "unparseable"

(* lines 383-409: fetch() is entered; the body is parsed outside any try, *)
(* transformRequestForCodex catches its own errors                         *)
StartCall ==
    /\ pc \in { "idle", "done", "threw" }
    /\ hist.calls < MaxCalls
    /\ \E body \in InboundBodies :
          LET h == [NoHist EXCEPT !.calls = hist.calls + 1,
                                  !.startFree = FreeSet(manager, now),
                                  !.round = hist.round, !.visits = hist.visits,
                                  !.body = body]
          IN  IF bodyParses(body)
              THEN /\ pc' = "loop"
                   /\ call' = [IdleCall EXCEPT !.accountCount = getAccountCount(manager)]
                   /\ outcome' = NoOutcome
                   /\ hist' = h
              ELSE /\ pc' = "threw"
                   /\ call' = IdleCall
                   /\ outcome' = [NoOutcome EXCEPT !.kind = "threw", !.cause = "JSON.parse"]
                   /\ hist' = h
    /\ UNCHANGED <<now, manager, disk, ret>>

(* lines 527-542: the synthesized response *)
Exhausted(m, h) ==
    LET r == getMinWaitTime(m, now)
    IN  /\ manager' = r.m
        /\ outcome' = [NoOutcome EXCEPT !.kind = "synthesized", !.status = 429,
                                        !.waitMs = r.ret,
                                        !.free = FreeSet(r.m, now), !.at = now]
        /\ pc' = "done"
        /\ hist' = h
        /\ UNCHANGED <<disk, call>>

CoolDown_asRateLimit(m, p, c, h, d) ==
    LET m1 == markRateLimited(m, p, Num(AUTH_FAILURE_COOLDOWN_MS), now)
    IN  /\ manager' = m1
        /\ call' = [c EXCEPT !.storage = saveToDisk(m1)]
        /\ pc' = "saveCooldown"
        /\ hist' = EndRound([h EXCEPT !.failed = h.failed \cup { p }])
        /\ disk' = d
        /\ UNCHANGED outcome

(* lines 429-434 and 441-446: cooldown, then saveToDisk() is entered; the  *)
(* storage object is built from the pool before the first await; d is the  *)
(* file as the step leaves it                                              *)
CoolDown(m, p, c, h, d) ==
    LET m1 == markAccountCoolingDown(m, p, Num(AUTH_FAILURE_COOLDOWN_MS), "auth-failure", now)
    IN  /\ manager' = m1
        /\ call' = [c EXCEPT !.storage = saveToDisk(m1)]
        /\ pc' = "saveCooldown"
        /\ hist' = EndRound([h EXCEPT !.failed = h.failed \cup { p }])
        /\ disk' = d
        /\ UNCHANGED outcome

(* lines 438-483: identity, notification, dispatch *)
ResolveAndDispatch(m, p, c, h, d) ==
    LET account == m.accounts[p]
        accountId == IF account.accountId = Undef
                     THEN extractAccountId(c.accountAuth.access)
                     ELSE account.accountId
        m1 == [m EXCEPT !.accounts[p].accountId = accountId]
        m2 == IF c.accountCount > 1
                 /\ shouldShowAccountToast(m1, account.index, TOAST_DEBOUNCE_MS, now)
              THEN markToastShown(m1, account.index, now)
              ELSE m1
    IN  IF ~Truthy(accountId)
        THEN CoolDown(m, p, c, h, d)
        ELSE /\ manager' = m2
             /\ call' = c
             /\ pc' = "dispatch"
             /\ hist' = [h EXCEPT !.dispatched = Append(h.dispatched, p),
                                  !.inFlight = h.inFlight + 1,
                                  !.visits = IF h.round THEN Append(h.visits, p) ELSE <<>>]
             /\ disk' = d
             /\ UNCHANGED outcome

(* line 413: if (!account || attempted.has(account.index)) break *)
loopBreaks_nullOnly(m, account, attempted) == account = NullAcc

loopBreaks(m, account, attempted) ==
    account = NullAcc \/ m.accounts[account].index \in attempted

(* lines 411-427: loop test, selection, expiry check *)
LoopHead ==
    /\ pc = "loop"
    /\ IF Cardinality(call.attempted) < MathMax(1, call.accountCount)
       THEN LET r == getCurrentOrNext(manager, now)
                h == [hist EXCEPT !.iterations = hist.iterations + 1, !.handled = NullAcc]
            IN  IF loopBreaks(r.m, r.ret, call.attempted)
                THEN Exhausted(r.m, h)
                ELSE LET c == [call EXCEPT
                                  !.attempted = call.attempted \cup { r.m.accounts[r.ret].index },
                                  !.account = r.ret,
                                  !.accountAuth = toAuthDetails(r.m.accounts[r.ret])]
                     IN  IF shouldRefreshToken(c.accountAuth, now)
                         THEN /\ manager' = r.m
                              /\ call' = c
                              /\ pc' = "refresh"
                              /\ hist' = [h EXCEPT !.refreshes = h.refreshes + 1]
                              /\ UNCHANGED <<disk, outcome>>
                         ELSE ResolveAndDispatch(r.m, r.ret, c, h, disk)
       ELSE Exhausted(manager, hist)
    /\ UNCHANGED <<now, ret>>

(* lines 421-426: refreshAccessToken, client.auth.set, updateFromAuth;     *)
(* a failed refresh and a throwing client.auth.set both reach the catch    *)
RefreshFailed ==
    /\ pc = "refresh"
    /\ \E how \in { "refreshAccessToken", "client.auth.set" } :
          CoolDown(manager, call.account, call, hist, disk)
    /\ UNCHANGED <<now, ret>>

RefreshSucceeded ==
    /\ pc = "refresh"
    /\ \E access \in RefreshedAccess :
          LET auth == [type |-> "oauth", access |-> access,
                       refresh |-> call.accountAuth.refresh,
                       expires |-> now + TokenLifetimeMs]
              m1 == updateFromAuth(manager, call.account, auth)
          IN  /\ manager' = m1
              /\ call' = [call EXCEPT !.accountAuth = auth, !.storage = saveToDisk(m1)]
    /\ pc' = "saveRefreshed"
    /\ UNCHANGED <<now, disk, ret, outcome, hist>>

(* line 426: saveToDisk after a refresh, inside the try block *)
SaveRefreshedOk ==
    /\ pc = "saveRefreshed"
    /\ ResolveAndDispatch(manager, call.account, call, hist, call.storage)
    /\ UNCHANGED <<now, ret>>

SaveRefreshedFailed ==
    /\ pc = "saveRefreshed"
    /\ CoolDown(manager, call.account, call, hist, disk)
    /\ UNCHANGED <<now, ret>>

(* lines 434 and 446: saveToDisk after a cooldown, then continue *)
SaveCooldownOk ==
    /\ pc = "saveCooldown"
    /\ disk' = call.storage
    /\ pc' = "loop"
    /\ UNCHANGED <<now, manager, ret, call, outcome, hist>>

Threw(cause) ==
    /\ pc' = "threw"
    /\ outcome' = [NoOutcome EXCEPT !.kind = "threw", !.cause = cause]
    /\ hist' = EndRound([hist EXCEPT !.inFlight = 0])

SaveCooldownFailed ==
    /\ pc = "saveCooldown"
    /\ Threw("saveToDisk")
    /\ UNCHANGED <<now, manager, disk, ret, call>>

(* line 495: if (rateLimit) *)
takesRateLimitBranch_anyError(e) == TRUE

takesRateLimitBranch(e) == e.rateLimit

(* lines 480-524: the upstream answered *)
Responded ==
    /\ pc = "dispatch"
    /\ \E status \in Statuses, retryAfter \in RetryAfterHeaders :
          /\ status # 429 => retryAfter = NoTime
          /\ LET p == call.account
                 e == handleErrorResponse(status, retryAfter)
             IN  IF status = 200
                 THEN /\ pc' = "success"
                      /\ UNCHANGED <<manager, call, outcome>>
                 ELSE IF takesRateLimitBranch(e)
                 THEN LET m1 == markSwitched(
                                    markRateLimited(manager, p, Num(e.retryAfterMs), now),
                                    p, "rate-limit")
                      IN  /\ manager' = m1
                          /\ call' = [call EXCEPT !.storage = saveToDisk(m1)]
                          /\ pc' = "saveRateLimit"
                          /\ UNCHANGED outcome
                 ELSE /\ outcome' = [NoOutcome EXCEPT !.kind = "response", !.status = e.status,
                                                      !.account = p]
                      /\ pc' = "done"
                      /\ UNCHANGED <<manager, call>>
          /\ LET h == [hist EXCEPT
                              !.inFlight = hist.inFlight - 1,
                              !.upstream = status,
                              !.retryMs = handleErrorResponse(status, retryAfter).retryAfterMs,
                              !.upstreamAt = now]
             IN  hist' = IF status = 429 /\ h.retryMs > 0 THEN h ELSE EndRound(h)
    /\ UNCHANGED <<now, disk, ret>>

(* line 524: handleSuccessResponse returns the forwarded or converted     *)
(* response                                                                *)
SuccessReturned ==
    /\ pc = "success"
    /\ outcome' = [NoOutcome EXCEPT !.kind = "response", !.status = 200,
                                    !.account = call.account]
    /\ pc' = "done"
    /\ UNCHANGED <<now, manager, disk, ret, call, hist>>

(* line 524: reading the upstream stream fails or is aborted; the error   *)
(* leaves convertSseToJson and fetch()                                     *)
SuccessFailed ==
    /\ pc = "success"
    /\ Threw("stream")
    /\ UNCHANGED <<now, manager, disk, ret, call>>

DispatchFailed_coolsDown ==
    /\ pc = "dispatch"
    /\ Threw("fetch")
    /\ manager' = markAccountCoolingDown(manager, call.account,
                                         Num(AUTH_FAILURE_COOLDOWN_MS), "network-error", now)
    /\ UNCHANGED <<now, disk, ret, call>>

(* line 480: the global fetch rejects (network error, timeout, abort);    *)
(* the await is in no try block                                            *)
DispatchFailed ==
    /\ pc = "dispatch"
    /\ Threw("fetch")
    /\ UNCHANGED <<now, manager, disk, ret, call>>

(* lines 504-519: saveToDisk after a rate limit, notification, continue *)
SaveRateLimitOk ==
    /\ pc = "saveRateLimit"
    /\ disk' = call.storage
    /\ LET index == manager.accounts[call.account].index
       IN  manager' = IF getAccountCount(manager) > 1
                         /\ shouldShowAccountToast(manager, index, TOAST_DEBOUNCE_MS, now)
                      THEN markToastShown(manager, index, now)
                      ELSE manager
    /\ pc' = "loop"
    /\ hist' = [hist EXCEPT !.handled = call.account]
    /\ UNCHANGED <<now, ret, call, outcome>>

SaveRateLimitFailed ==
    /\ pc = "saveRateLimit"
    /\ Threw("saveToDisk")
    /\ UNCHANGED <<now, manager, disk, ret, call>>

Next ==
    \/ StartCall
    \/ LoopHead
    \/ RefreshFailed
    \/ RefreshSucceeded
    \/ SaveRefreshedOk
    \/ SaveRefreshedFailed
    \/ SaveCooldownOk
    \/ SaveCooldownFailed
    \/ Responded
    \/ SuccessReturned
    \/ SuccessFailed
    \/ DispatchFailed
    \/ SaveRateLimitOk
    \/ SaveRateLimitFailed
    \/ Tick

Spec == Init /\ [][Next]_vars

----------------------------------------------------------------------------
(* Properties of the pool (SpecPool) *)

(* C1: getCurrentOrNext() never returns an account whose                   *)
(* rateLimitResetTime or coolingDownUntil is later than the time of the    *)
(* call, and returns null when no account is free of both windows.         *)
C1_NeverReturnsBlocked ==
    ret.op = "getCurrentOrNext" =>
        /\ ret.acc # NullAcc =>
              /\ ret.acc \in ret.free
              /\ manager.accounts[ret.acc].rateLimitResetTime <= ret.at
              /\ manager.accounts[ret.acc].coolingDownUntil <= ret.at
        /\ ret.free = {} => ret.acc = NullAcc

(* a call that had to pass over a blocked account and returned a free one *)
C1_Witness ==
    /\ ret.op = "getCurrentOrNext"
    /\ ret.acc # NullAcc
    /\ ret.count >= 2
    /\ Cardinality(ret.free) < ret.count

(* C11: whenever the pool is non-empty exactly one account is active:     *)
(* activeIndex is within 0..N-1, after construction and after any sequence *)
(* of getCurrentOrNext, markSwitched, setActiveIndex, markRateLimited and  *)
(* markAccountCoolingDown.                                                 *)
C11_ActiveIndexInBounds ==
    Len(manager.accounts) > 0 =>
        /\ manager.activeIndex \in 0..(Len(manager.accounts) - 1)
        /\ getCurrentAccount(manager) # NullAcc

(* C12: in every pool state each account's index equals its array          *)
(* position, so the index values are exactly 0..N-1 without gap or         *)
(* duplicate.                                                              *)
C12_IndexIsPosition ==
    \A i \in 1..Len(manager.accounts) : manager.accounts[i].index = i - 1

(* C10: getMinWaitTime() is 0 if some account is available; if none is,   *)
(* it is the minimum remaining time over the outstanding windows, which is *)
(* greater than 0 (stated for the non-empty pool).                         *)
C10_MinWaitTime ==
    (ret.op = "getMinWaitTime" /\ ret.count > 0) =>
        /\ ret.free # {} => ret.value = 0
        /\ ret.free = {} =>
              /\ ret.value > 0
              /\ ret.value = SetMin(ret.ends) - ret.at

----------------------------------------------------------------------------
(* Properties of the retry loop (Spec) *)

(* C2: an upstream 429 is never handed to the caller as such, and the      *)
(* synthesized "all accounts" 429 is returned only in a state where no     *)
(* account of the pool is available, whatever retry hints were received.   *)
C2_SynthesizedOnlyWhenExhausted ==
    /\ outcome.kind = "response" => outcome.status # 429
    /\ outcome.kind = "synthesized" => outcome.free = {}

NoDuplicates(q) == \A i, j \in DOMAIN q : i # j => q[i] # q[j]

(* C3: a call runs at most max(1, poolSize) iterations of the retry loop,  *)
(* has at most one upstream request in flight, and never dispatches twice  *)
(* to the same account, so it ends after a bounded number of steps.        *)
C3_BoundedRetry ==
    /\ hist.iterations <= MathMax(1, call.accountCount)
    /\ hist.inFlight \in { 0, 1 }
    /\ hist.inFlight = 1 <=> pc = "dispatch"
    /\ Len(hist.dispatched) <= hist.iterations
    /\ NoDuplicates(hist.dispatched)

(* the account already dispatched to is free again when the call ends, and *)
(* the call ends with the synthesized response instead of a second request *)
C3_Witness ==
    /\ pc = "done"
    /\ outcome.kind = "synthesized"
    /\ \E i \in DOMAIN hist.dispatched : hist.dispatched[i] \in outcome.free

(* C4: once a 429 with retry hint R has been handled (markRateLimited,     *)
(* markSwitched, saveToDisk), the account's rateLimitResetTime is the      *)
(* handling time plus R and the active pointer no longer references it.    *)
C4_RateLimitedAccountLeft ==
    (pc = "loop" /\ hist.handled # NullAcc) =>
        /\ manager.accounts[hist.handled].rateLimitResetTime = hist.upstreamAt + hist.retryMs
        /\ getCurrentAccount(manager) # hist.handled

(* the step in which an account fails locally: its refresh failed or its   *)
(* identity could not be resolved                                          *)
AuthFailureStep == hist'.calls = hist.calls /\ hist'.failed # hist.failed

(* C5: a refresh failure or an unresolvable identity marks exactly that    *)
(* account cooling down for 30 s with reason auth-failure and enters       *)
(* saveToDisk with that state; when the write completes the file holds it  *)
(* and the loop continues without anything handed to the caller; a         *)
(* response the caller receives later comes from another account.          *)
C5_AuthFailureCoolsDown ==
    [][ /\ AuthFailureStep =>
              LET p == call'.account
              IN  /\ hist'.failed = hist.failed \cup { p }
                  /\ manager'.accounts[p].coolingDownUntil = now + 30000
                  /\ manager'.accounts[p].cooldownReason = "auth-failure"
                  /\ \A i \in 1..Len(manager.accounts) \ { p } :
                        /\ manager'.accounts[i].coolingDownUntil
                              \in { manager.accounts[i].coolingDownUntil, NoTime }
                        /\ manager'.accounts[i].rateLimitResetTime
                              \in { manager.accounts[i].rateLimitResetTime, NoTime }
                  /\ pc' = "saveCooldown"
                  /\ call'.storage = saveToDisk(manager')
                  /\ outcome' = NoOutcome
        /\ (pc = "saveCooldown" /\ pc' = "loop") =>
              /\ disk' = saveToDisk(manager)
              /\ disk'.accounts[call.account].coolingDownUntil = now + 30000
              /\ disk'.accounts[call.account].cooldownReason = "auth-failure"
              /\ manager' = manager
              /\ outcome' = NoOutcome
        /\ (outcome.kind = "none" /\ outcome'.kind = "response") =>
              /\ outcome'.account \notin hist.failed
              /\ outcome'.account = call.account
      ]_vars

(* one account failed locally and another account's success was returned *)
C5_Witness ==
    /\ pc = "done"
    /\ outcome.kind = "response"
    /\ outcome.status = 200
    /\ hist.failed # {}
    /\ outcome.account \notin hist.failed
    /\ manager.accounts[CHOOSE p \in hist.failed : TRUE].cooldownReason = "auth-failure"

(* C6: an upstream answer with a non-success status other than 429 is      *)
(* returned at once: the call ends with that response, no window and no    *)
(* other field of the pool changes, nothing is written, the active pointer *)
(* stays, no further account is tried.                                     *)
C6_OtherErrorsReturned ==
    [][ (pc = "dispatch" /\ pc' # "dispatch" /\ hist'.upstream \notin { 0, 200, 429 }) =>
            /\ pc' = "done"
            /\ outcome'.kind = "response"
            /\ outcome'.status = hist'.upstream
            /\ outcome'.account = call.account
            /\ manager' = manager
            /\ disk' = disk
            /\ call' = call
            /\ hist'.dispatched = hist.dispatched
            /\ hist'.iterations = hist.iterations
      ]_vars

(* a 500 was returned although another account of the pool was available *)
C6_Witness ==
    /\ pc = "done"
    /\ outcome.kind = "response"
    /\ outcome.status = 500
    /\ hist.upstream = 500
    /\ FreeSet(manager, now) \ { outcome.account } # {}

(* C7: a call that starts with no account available makes no upstream      *)
(* dispatch and no refresh and returns the synthesized 429 carrying        *)
(* getMinWaitTime().                                                       *)
C7_NothingAvailableAtStart ==
    (hist.calls > 0 /\ hist.startFree = {}) =>
        /\ hist.dispatched = <<>>
        /\ hist.refreshes = 0
        /\ hist.inFlight = 0
        /\ pc \in { "loop", "done" }
        /\ pc = "done" =>
              /\ outcome.kind = "synthesized"
              /\ outcome.status = 429
              /\ outcome.waitMs = getMinWaitTime(manager, outcome.at).ret

(* such a call has returned after one look at the pool, with a wait *)
C7_Witness ==
    /\ pc = "done"
    /\ hist.calls > 0
    /\ hist.startFree = {}
    /\ hist.iterations = 1
    /\ outcome.kind = "synthesized"
    /\ outcome.waitMs > 0

(* C8: fetch() never throws on account of a local account failure, a       *)
(* failure while persisting the account's cooldown or rate-limit state     *)
(* included.                                                               *)
C8_LocalFailuresAbsorbed == ~(pc = "threw" /\ outcome.cause = "saveToDisk")

(* a window that has not expired at t; 0 stands for none *)
Unexpired(v, t) == IF v # NoTime /\ t < v THEN v ELSE 0

(* the file loads to the pool's activeIndex and unexpired windows *)
StoreMatchesPool(file, m, t) ==
    LET stored == loadAccounts(file)
    IN  /\ ~stored.isNull
        /\ Len(stored.accounts) = Len(m.accounts)
        /\ stored.activeIndex = MathMax(0, m.activeIndex)
        /\ \A i \in 1..Len(m.accounts) :
              /\ Unexpired(stored.accounts[i].rateLimitResetTime, t)
                    = Unexpired(m.accounts[i].rateLimitResetTime, t)
              /\ Unexpired(stored.accounts[i].coolingDownUntil, t)
                    = Unexpired(m.accounts[i].coolingDownUntil, t)

(* C9: whenever a call has returned, the activeIndex and the unexpired     *)
(* windows on disk equal those in memory, rotations made inside            *)
(* getCurrentOrNext() included.                                            *)
C9_DiskEqualsMemory == pc = "done" => StoreMatchesPool(disk, manager, now)

(* C13: round-robin fairness: starting from N available accounts, with     *)
(* every account dispatched to answered at once by a 429, no account is    *)
(* visited a second time, and while an account is unvisited the next       *)
(* account handed out by getCurrentOrNext() is an unvisited one.           *)
C13_RoundRobin ==
    hist.round =>
        /\ NoDuplicates(hist.visits)
        /\ (pc \in { "idle", "done" }
            /\ { hist.visits[i] : i \in DOMAIN hist.visits } # DOMAIN manager.accounts) =>
              LET next == getCurrentOrNext(manager, now).ret
              IN  /\ next # NullAcc
                  /\ \A i \in DOMAIN hist.visits : hist.visits[i] # next

(* a round in which a pool of two accounts has been visited completely *)
C13_Witness ==
    /\ hist.round
    /\ pc = "done"
    /\ Len(manager.accounts) = 2
    /\ { hist.visits[i] : i \in DOMAIN hist.visits } = { 1, 2 }

----------------------------------------------------------------------------
(* Properties of the store and of the construction (SpecStore) *)

(* the stored record matches the host credential by account identity or   *)
(* by refresh credential                                                   *)
MatchesHost(record, auth) ==
    \/ (extractAccountId(auth.access) # Undef
        /\ record.accountId = extractAccountId(auth.access))
    \/ record.refreshToken = auth.refresh

StoredOf(store) == IF store.isNull THEN <<>> ELSE store.accounts

(* positions of the stored records that have a usable refresh credential *)
UsablePos(records) ==
    SelectSeq(PosSeq(Len(records)), LAMBDA i : Truthy(records[i].refreshToken))

CarriesHost(account, auth) ==
    /\ account.refreshToken = auth.refresh
    /\ account.access = auth.access
    /\ account.expires = auth.expires

(* the pool built from records and the host credential, given the set of  *)
(* positions that count as matching                                        *)
Reconciled(records, auth, matching) ==
    LET usable == UsablePos(records)
        n == Len(manager.accounts)
    IN  IF matching = {}
        THEN /\ n = Len(usable) + 1
             /\ CarriesHost(manager.accounts[n], auth)
             /\ \A j \in 1..Len(usable) :
                   manager.accounts[j].refreshToken = records[usable[j]].refreshToken
        ELSE /\ n = Len(usable)
             /\ \A i \in matching :
                   \E j \in 1..n : usable[j] = i /\ CarriesHost(manager.accounts[j], auth)

(* C14: building the pool from the store and the host credential: if no   *)
(* stored record matches the host credential (a missing, corrupt or empty  *)
(* store included) exactly one account with the host's refresh, access and *)
(* expiry is appended last; if a record matches, it is overwritten with    *)
(* the host's values and no account is added.                              *)
C14_Reconcile ==
    (ret.op = "constructor" /\ ret.auth.present) =>
        LET records == StoredOf(ret.stored)
        IN  Reconciled(records, ret.auth,
                { i \in 1..Len(records) : MatchesHost(records[i], ret.auth) })

(* C14 as the code has it: only the records with a usable (non-empty)     *)
(* refresh credential are kept and can match; if none of them matches the  *)
(* host account is appended last, else every matching one is overwritten   *)
(* and no account is added.                                                *)
C14_ReconcileUsable ==
    (ret.op = "constructor" /\ ret.auth.present) =>
        LET records == StoredOf(ret.stored)
        IN  Reconciled(records, ret.auth,
                { i \in 1..Len(records) : /\ Truthy(records[i].refreshToken)
                                          /\ MatchesHost(records[i], ret.auth) })

(* a pool of two stored accounts of which the second matched the host     *)
(* credential by identity only and was overwritten                        *)
C14_Witness ==
    /\ ret.op = "constructor"
    /\ ret.auth.present
    /\ Len(manager.accounts) = 2
    /\ Len(StoredOf(ret.stored)) = 2
    /\ ~MatchesHost(ret.stored.accounts[1], ret.auth)
    /\ ret.stored.accounts[2].refreshToken # ret.auth.refresh
    /\ CarriesHost(manager.accounts[2], ret.auth)

(* the file is unreadable or malformed, or has a version tag other than 1 *)
(* or an accounts field that is not a list                                 *)
Untrusted(file) ==
    \/ file.content # "object"
    \/ file.version # 1
    \/ ~file.accountsIsList

(* C15: loading the store fails closed: an unreadable or malformed file, a *)
(* version tag other than 1 or a non-list accounts field yields null for   *)
(* the whole store, and no error is thrown.                                *)
C15_FailsClosed ==
    ret.op \in { "loadAccounts", "loadAccountsLegacy" } =>
        /\ ~ret.threw
        /\ Untrusted(disk) => ret.stored = NullStore

(* an unreadable file was loaded *)
C15_Witness ==
    /\ ret.op = "loadAccounts"
    /\ disk.content = "unreadable"
    /\ ret.stored.isNull

(* the dedup key of a record: its accountId, else its refreshToken *)
DedupKey(record) ==
    IF record.accountId # Undef /\ record.accountId # "" THEN record.accountId
    ELSE record.refreshToken

HasKey(record) == DedupKey(record) # Undef /\ DedupKey(record) # ""

(* a is at least as recent as b: greater lastUsed, or equal and addedAt   *)
(* at least as great                                                       *)
AtLeastAsRecent(a, b) ==
    \/ a.lastUsed > b.lastUsed
    \/ a.lastUsed = b.lastUsed /\ a.addedAt >= b.addedAt

(* sub is obtained from full by deleting entries, order kept *)
IsSubsequence(sub, full) ==
    \E f \in [DOMAIN sub -> DOMAIN full] :
        /\ \A j \in DOMAIN sub : sub[j] = full[f[j]]
        /\ \A j, k \in DOMAIN sub : j < k => f[j] < f[k]

(* C16: deduplicateAccounts returns exactly one record per dedup key      *)
(* (accountId, else refreshToken) of the input, the one with the greatest  *)
(* lastUsed, ties broken by the greatest addedAt, and the survivors keep   *)
(* their original relative order.                                          *)
C16_DedupNewestPerKey ==
    ret.op = "deduplicateAccounts" =>
        LET input == ret.input
            output == ret.output
            keys == { DedupKey(input[i]) : i \in { k \in DOMAIN input : HasKey(input[k]) } }
        IN  /\ { DedupKey(output[j]) : j \in DOMAIN output } = keys
            /\ Len(output) = Cardinality(keys)
            /\ \A j \in DOMAIN output :
                  \A i \in DOMAIN input :
                      DedupKey(input[i]) = DedupKey(output[j]) =>
                          AtLeastAsRecent(output[j], input[i])
            /\ IsSubsequence(output, input)

(* three records of which the first two share a key and their lastUsed,   *)
(* and the second, added later, survives in front of the third            *)
C16_Witness ==
    /\ ret.op = "deduplicateAccounts"
    /\ Len(ret.input) = 3
    /\ Len(ret.output) = 2
    /\ DedupKey(ret.input[1]) = DedupKey(ret.input[2])
    /\ ret.input[1].lastUsed = ret.input[2].lastUsed
    /\ ret.input[1].addedAt < ret.input[2].addedAt
    /\ ret.output = << ret.input[2], ret.input[3] >>

(* C17: deduplication is idempotent: deduplicateAccounts applied to its   *)
(* own result returns that result.                                         *)
C17_DedupIdempotent ==
    ret.op = "deduplicateAccounts" => ret.again = ret.output

(* a list from which deduplication removed a record *)
C17_Witness ==
    /\ ret.op = "deduplicateAccounts"
    /\ Len(ret.output) = 2
    /\ Len(ret.output) < Len(ret.input)
    /\ ret.again = ret.output

(* the raw store names one of its records as active *)
HasActiveRecord(file) ==
    /\ ~Untrusted(file)
    /\ file.activeIndex \in 0..(Len(file.accounts) - 1)

(* C18: normalizeAccountStorage preserves who is active: when the active  *)
(* record of the raw store has a dedup key, the record at the normalized   *)
(* activeIndex has the same dedup key; the normalized activeIndex is       *)
(* within the bounds of the normalized list.                               *)
C18_ActiveIdentityKept ==
    (ret.op = "loadAccounts" /\ ~Untrusted(disk)) =>
        LET accounts == ret.stored.accounts
            activeIndex == ret.stored.activeIndex
        IN  /\ Len(accounts) > 0 => activeIndex \in 0..(Len(accounts) - 1)
            /\ Len(accounts) = 0 => activeIndex = 0
            /\ (HasActiveRecord(disk) /\ HasKey(disk.accounts[disk.activeIndex + 1])) =>
                  /\ Len(accounts) > 0
                  /\ DedupKey(accounts[activeIndex + 1])
                        = DedupKey(disk.accounts[disk.activeIndex + 1])

----------------------------------------------------------------------------
(* src/unnamed/part_004: the conversion of an event stream to one JSON     *)
(* document. A JSON value is a record: text names the value, isObject      *)
(* tells an object from a scalar, type and response are the fields of an   *)
(* object (response Undef: no such key; "null": the key with value null).  *)
(* call holds the locals of parseSseStream, ret the converted response.    *)

JsonValue(text, isObject, type, hasResponse, response) ==
    [text |-> text, isObject |-> isObject, type |-> type,
     hasResponse |-> hasResponse, response |-> response]

NoEvent == JsonValue(Undef, FALSE, Undef, FALSE, Undef)

SseEvents ==
    { JsonValue("E1", TRUE, "response.done", TRUE, "R1"),
      JsonValue("E2", TRUE, "response.completed", TRUE, "R2"),
      JsonValue("E3", TRUE, "response.created", TRUE, "R3"),
      JsonValue("E4", TRUE, "response.done", FALSE, Undef),
      JsonValue("E5", TRUE, "response.done", TRUE, "null"),
      JsonValue("E6", TRUE, "response.output_text.delta", FALSE, Undef),
      JsonValue("0", FALSE, Undef, FALSE, Undef) }

(* the content of a data: line: a complete JSON text, the first or the    *)
(* second half of a JSON text split over two lines, the bracket that opens *)
(* or closes an array written over several lines, something that is no     *)
(* JSON, or nothing                                                        *)
SseContents ==
    { [kind |-> "json", event |-> e] : e \in SseEvents }
    \cup { [kind |-> "head", event |-> JsonValue("E7", TRUE, "response.completed", TRUE, "R7")],
           [kind |-> "tail", event |-> NoEvent],
           [kind |-> "open", event |-> NoEvent],
           [kind |-> "close", event |-> NoEvent],
           [kind |-> "garbage", event |-> NoEvent],
           [kind |-> "blank", event |-> NoEvent] }

SseLines ==
    { [line |-> "data", content |-> c] : c \in SseContents }
    \cup { [line |-> "empty", content |-> [kind |-> "blank", event |-> NoEvent]],
           [line |-> "other", content |-> [kind |-> "garbage", event |-> NoEvent]] }

(* an array is an object without a response key *)
JsonArray(text) == JsonValue(text, TRUE, Undef, FALSE, Undef)

(* the JSON value that the tokens spell, if they spell one *)
RECURSIVE JsonTokens(_)
JsonTokens(tokens) ==
    IF Len(tokens) = 1 /\ tokens[1].kind = "json"
    THEN [ok |-> TRUE, value |-> tokens[1].event]
    ELSE IF Len(tokens) = 2 /\ tokens[1].kind = "head" /\ tokens[2].kind = "tail"
    THEN [ok |-> TRUE, value |-> tokens[1].event]
    ELSE IF Len(tokens) = 2 /\ tokens[1].kind = "open" /\ tokens[2].kind = "close"
    THEN [ok |-> TRUE, value |-> JsonArray("[]")]
    ELSE IF Len(tokens) > 2 /\ tokens[1].kind = "open" /\ tokens[Len(tokens)].kind = "close"
    THEN LET element == JsonTokens(SubSeq(tokens, 2, Len(tokens) - 1))
         IN  IF element.ok
             THEN [ok |-> TRUE, value |-> JsonArray("[" \o element.value.text \o "]")]
             ELSE [ok |-> FALSE, value |-> NoEvent]
    ELSE [ok |-> FALSE, value |-> NoEvent]

(* JSON.parse of the contents joined by newlines: white space between the *)
(* tokens is skipped                                                       *)
JsonParse(contents) == JsonTokens(SelectSeq(contents, LAMBDA c : c.kind # "blank"))

isTerminalType(type) == type = "response.done" \/ type = "response.completed"

processEvent_lastWins(c, parsed) ==
    LET seen == [c EXCEPT !.lastEvent = parsed, !.events = Append(@, parsed)]
    IN  IF parsed.isObject /\ parsed.hasResponse
        THEN [seen EXCEPT !.lastResponseLike = parsed.response,
                          !.finalResponse = parsed.response]
        ELSE seen

(* processEvent on the locals c; events is the list of the events parsed *)
processEvent(c, parsed) ==
    LET seen == [c EXCEPT !.lastEvent = parsed, !.events = Append(@, parsed)]
    IN  IF parsed.isObject /\ parsed.hasResponse
        THEN LET liked == [seen EXCEPT !.lastResponseLike = parsed.response]
             IN  IF isTerminalType(parsed.type)
                 THEN [liked EXCEPT !.finalResponse = parsed.response]
                 ELSE liked
        ELSE seen

(* tryFlush: the locals after it, and whether it parsed *)
tryFlush(c) ==
    IF Len(c.pendingData) = 0 THEN [ok |-> FALSE, locals |-> c]
    ELSE LET parsed == JsonParse(c.pendingData)
         IN  IF parsed.ok
             THEN [ok |-> TRUE,
                   locals |-> processEvent([c EXCEPT !.pendingData = <<>>], parsed.value)]
             ELSE [ok |-> FALSE, locals |-> c]

NoLocals ==
    [lines |-> <<>>, pos |-> 1, status |-> 0, hasBody |-> FALSE, stream |-> Undef,
     contentType |-> Undef, pendingData |-> <<>>,
     lastEvent |-> NoEvent, lastResponseLike |-> Undef, finalResponse |-> Undef,
     events |-> <<>>]

NoResponse == [op |-> "none", status |-> 0, contentType |-> Undef, body |-> Undef,
               raw |-> FALSE]

(* the text of the stream as it was read *)
FullText(lines) == << "text", lines >>

SseStatuses == { 200, 202 }

(* the stream field of the inbound body: true, false, or no such field *)
BodyStreams == { "true", "false", Undef }

(* the content-type header of the upstream response, Undef: none *)
UpstreamContentTypes == { Undef, "text/event-stream" }

isStreamingRequest_notFalse(stream) == stream # "false"

(* src/index.ts: const isStreaming = originalBody.stream === true *)
isStreamingRequest(stream) == stream = "true"

ensureContentType(contentType) ==
    IF contentType = Undef THEN "text/event-stream; charset=utf-8" ELSE contentType

InitSse ==
    /\ now = 0
    /\ manager = EmptyManager
    /\ disk = MissingFile
    /\ \E lines \in SeqsUpTo(SseLines, MaxLines), status \in SseStatuses, hasBody \in BOOLEAN,
          stream \in BodyStreams, contentType \in UpstreamContentTypes :
          /\ ~hasBody => lines = <<>>
          /\ call = [NoLocals EXCEPT !.lines = lines, !.status = status, !.hasBody = hasBody,
                                     !.stream = stream, !.contentType = contentType]
    /\ ret = NoResponse
    /\ pc = "sse-read"
    /\ outcome = NoOutcome
    /\ hist = NoHist

(* handleSuccessResponse for a streaming call: the upstream body is handed *)
(* on with the upstream status and the headers of ensureContentType        *)
SseForward ==
    /\ pc = "sse-read"
    /\ isStreamingRequest(call.stream)
    /\ ret' = [op |-> "handleSuccessResponse", status |-> call.status,
               contentType |-> ensureContentType(call.contentType),
               body |-> FullText(call.lines), raw |-> TRUE]
    /\ pc' = "sse-forwarded"
    /\ UNCHANGED <<now, manager, disk, call, outcome, hist>>

(* if (!response.body) throw *)
SseNoBody ==
    /\ pc = "sse-read"
    /\ ~isStreamingRequest(call.stream)
    /\ ~call.hasBody
    /\ pc' = "sse-threw"
    /\ UNCHANGED <<now, manager, disk, ret, call, outcome, hist>>

(* the stream is consumed whole, then split into lines *)
SseRead ==
    /\ pc = "sse-read"
    /\ ~isStreamingRequest(call.stream)
    /\ call.hasBody
    /\ pc' = "sse-lines"
    /\ UNCHANGED <<now, manager, disk, ret, call, outcome, hist>>

AtLine(kind) ==
    /\ pc = "sse-lines"
    /\ call.pos <= Len(call.lines)
    /\ call.lines[call.pos].line = kind

(* line === "" *)
SseEmptyLine ==
    /\ AtLine("empty")
    /\ call' = [tryFlush(call).locals EXCEPT !.pendingData = <<>>, !.pos = @ + 1]
    /\ UNCHANGED <<now, manager, disk, ret, pc, outcome, hist>>

(* line.startsWith("data:") *)
SseDataLine ==
    /\ AtLine("data")
    /\ LET content == call.lines[call.pos].content
           pushed == [call EXCEPT !.pendingData = Append(@, content), !.pos = @ + 1]
           flushed == tryFlush(pushed)
           alone == JsonParse(<< content >>)
       IN  call' = IF flushed.ok THEN flushed.locals
                   ELSE IF alone.ok
                   THEN processEvent([pushed EXCEPT !.pendingData = <<>>], alone.value)
                   ELSE pushed
    /\ UNCHANGED <<now, manager, disk, ret, pc, outcome, hist>>

(* any other line is skipped *)
SseOtherLine ==
    /\ AtLine("other")
    /\ call' = [call EXCEPT !.pos = @ + 1]
    /\ UNCHANGED <<now, manager, disk, ret, pc, outcome, hist>>

(* the final flush and the return of parseSseStream *)
SseEndOfStream ==
    /\ pc = "sse-lines"
    /\ call.pos > Len(call.lines)
    /\ call' = tryFlush(call).locals
    /\ pc' = "sse-parsed"
    /\ UNCHANGED <<now, manager, disk, ret, outcome, hist>>

(* a ?? b *)
Nullish(value) == value = Undef \/ value = "null"

(* !value for the JSON values of the model *)
Falsy(value) == Nullish(value) \/ value = "0"

(* parsed.finalResponse ?? parsed.lastResponseLike ?? parsed.lastEvent *)
responsePayload(parsed) ==
    IF ~Nullish(parsed.finalResponse) THEN parsed.finalResponse
    ELSE IF ~Nullish(parsed.lastResponseLike) THEN parsed.lastResponseLike
    ELSE parsed.lastEvent.text

(* JSON.stringify of a value of the model *)
JsonStringify(value) == << "json", value >>

(* the rest of convertSseToJson: the response it returns *)
SseConvert ==
    /\ pc = "sse-parsed"
    /\ LET payload == responsePayload(call)
       IN  ret' = IF Falsy(payload)
                  THEN [op |-> "convertSseToJson", status |-> call.status,
                        contentType |-> ensureContentType(call.contentType),
                        body |-> FullText(call.lines), raw |-> TRUE]
                  ELSE [op |-> "convertSseToJson", status |-> call.status,
                        contentType |-> "application/json; charset=utf-8",
                        body |-> JsonStringify(payload), raw |-> FALSE]
    /\ pc' = "sse-done"
    /\ UNCHANGED <<now, manager, disk, call, outcome, hist>>

NextSse ==
    \/ SseForward
    \/ SseNoBody
    \/ SseRead
    \/ SseEmptyLine
    \/ SseDataLine
    \/ SseOtherLine
    \/ SseEndOfStream
    \/ SseConvert

SpecSse == InitSse /\ [][NextSse]_vars

----------------------------------------------------------------------------
(* Properties of the stream conversion (SpecSse) *)

(* the positions of the parsed events that are terminal *)
TerminalPos(events) == { i \in DOMAIN events : isTerminalType(events[i].type) }

(* the positions of the parsed events that carry a nested result *)
ResultPos(events) == { i \in DOMAIN events : events[i].hasResponse }

SetMax(S) == CHOOSE x \in S : \A y \in S : y <= x

(* the nested result of the last event at one of the positions, Undef if  *)
(* there is no such event                                                  *)
LastResult(events, positions) ==
    IF positions = {} THEN Undef ELSE events[SetMax(positions)].response

LastEventIsLast ==
    call.lastEvent = IF call.events = <<>> THEN NoEvent ELSE call.events[Len(call.events)]

(* C20: over any sequence of parsed events, finalEvent is the nested      *)
(* result of the last event whose type is response.done or                 *)
(* response.completed, lastResponseLike the nested result of the last      *)
(* event that carries one, lastEvent the last event parsed.                *)
C20_ParserFields ==
    pc \in { "sse-lines", "sse-parsed", "sse-done" } =>
        /\ call.finalResponse = LastResult(call.events, TerminalPos(call.events))
        /\ call.lastResponseLike = LastResult(call.events, ResultPos(call.events))
        /\ LastEventIsLast

(* C20 as the code has it: finalEvent is the nested result of the last    *)
(* terminal event that carries a nested result; a terminal event without   *)
(* one leaves it as it was.                                                *)
C20_ParserFieldsCarried ==
    pc \in { "sse-lines", "sse-parsed", "sse-done" } =>
        /\ call.finalResponse
              = LastResult(call.events, TerminalPos(call.events) \cap ResultPos(call.events))
        /\ call.lastResponseLike = LastResult(call.events, ResultPos(call.events))
        /\ LastEventIsLast

(* a terminal event was followed by a non-terminal event with a result *)
C20_Witness ==
    /\ pc = "sse-parsed"
    /\ Len(call.events) = 2
    /\ isTerminalType(call.events[1].type)
    /\ ~isTerminalType(call.events[2].type)
    /\ call.events[2].hasResponse
    /\ call.finalResponse = call.events[1].response
    /\ call.lastResponseLike = call.events[2].response

(* C19: the converted body is chosen by strict priority: the terminal     *)
(* event's nested result if one was seen, else the last nested result of   *)
(* any event, else the last parsed event, and the raw stream text only if  *)
(* nothing parsed at all; the upstream status is preserved.                *)
C19_BodyPriority ==
    pc = "sse-done" =>
        LET events == call.events
            terminal == TerminalPos(events) \cap ResultPos(events)
        IN  /\ ret.status = call.status
            /\ ret.body =
                  IF terminal # {} THEN JsonStringify(LastResult(events, terminal))
                  ELSE IF ResultPos(events) # {}
                  THEN JsonStringify(LastResult(events, ResultPos(events)))
                  ELSE IF events # <<>> THEN JsonStringify(events[Len(events)].text)
                  ELSE FullText(call.lines)

(* C21: on a success response a streaming call (body.stream === true)     *)
(* gets the upstream body and status unchanged, with only a missing        *)
(* content-type header defaulted; any other call has the stream consumed   *)
(* whole and handed to the conversion to one JSON document.                *)
C21_StreamingForwarded ==
    /\ pc = "sse-forwarded" =>
          /\ call.stream = "true"
          /\ ret.status = call.status
          /\ ret.body = FullText(call.lines)
          /\ ret.contentType = IF call.contentType = Undef
                               THEN "text/event-stream; charset=utf-8"
                               ELSE call.contentType
          /\ call.events = <<>>
    /\ pc \in { "sse-lines", "sse-parsed", "sse-done", "sse-threw" } => call.stream # "true"
    /\ pc = "sse-done" =>
          /\ call.pos > Len(call.lines)
          /\ ret.op = "convertSseToJson"
          /\ ret.status = call.status
          /\ ~ret.raw => ret.contentType = "application/json; charset=utf-8"

(* a streaming call whose upstream response had no content-type *)
C21_Witness ==
    /\ pc = "sse-forwarded"
    /\ call.contentType = Undef
    /\ Len(call.lines) = 2
    /\ ret.contentType = "text/event-stream; charset=utf-8"

----------------------------------------------------------------------------
(* Properties of the calls (Spec), continued *)

(* C22: a call whose body is not parseable JSON is not aborted: it goes   *)
(* on to account selection and dispatch and throws nothing to the caller.  *)
C22_UnparseableBodyProceeds ==
    hist.body = "unparseable" => pc # "threw"

(* C23: when the outbound dispatch times out, the account used is cooling *)
(* down with reason network-error and is not marked rate-limited.          *)
C23_TimeoutCoolsDown ==
    (pc = "threw" /\ outcome.cause = "fetch") =>
        /\ manager.accounts[call.account].cooldownReason = "network-error"
        /\ manager.accounts[call.account].coolingDownUntil # NoTime

(* the dispatch or the reading of the stream ends without a response *)
CancelledStep ==
    /\ pc \in { "dispatch", "success" }
    /\ pc' = "threw"

(* C24: a call cancelled while its dispatch or the reading of its stream  *)
(* is in flight sets no account's rate-limit or cooldown window and does   *)
(* not move the active pointer; while a dispatch is in flight the pool     *)
(* changes only when a response is observed.                               *)
C24_CancellationLeavesPool ==
    [][ /\ CancelledStep =>
              /\ manager' = manager
              /\ disk' = disk
        /\ (pc \in { "dispatch", "success" } /\ manager' # manager) =>
              /\ pc = "dispatch"
              /\ hist'.upstream = 429
              /\ hist'.upstreamAt = now
              /\ pc' = "saveRateLimit" ]_vars

(* a call was cancelled while the stream of a 200 response was read, in a *)
(* pool of two accounts                                                    *)
C24_Witness ==
    /\ pc = "threw"
    /\ outcome.cause = "stream"
    /\ hist.upstream = 200
    /\ Len(manager.accounts) = 2

----------------------------------------------------------------------------
(* Specification of the helpers that compare against the clock: the expiry *)
(* check of fetch-helpers and the notification debounce of the pool. ret   *)
(* is the last answer, call remembers the last markToastShown.             *)

AuthInputs ==
    { [type |-> type, access |-> access, refresh |-> "r1", expires |-> expires] :
         type \in { "oauth", "api" }, access \in { "", "tokA" },
         expires \in { 0, TickMs, 2 * TickMs } }

ToastIndices == { 0, 1 }

NoMark == [marked |-> FALSE, index |-> -1, at |-> 0]

InitHelpers ==
    /\ now = 0
    /\ manager = EmptyManager
    /\ disk = MissingFile
    /\ ret = [op |-> "none"]
    /\ pc = "idle"
    /\ call = NoMark
    /\ outcome = NoOutcome
    /\ hist = NoHist

HelperTick ==
    /\ now < MaxHelperTicks * TickMs
    /\ now' = now + TickMs
    /\ UNCHANGED <<manager, disk, ret, pc, call, outcome, hist>>

HelperShouldRefreshToken ==
    /\ \E auth \in AuthInputs :
          ret' = [op |-> "shouldRefreshToken", auth |-> auth, at |-> now,
                  value |-> shouldRefreshToken(auth, now)]
    /\ UNCHANGED <<now, manager, disk, pc, call, outcome, hist>>

HelperShouldShowAccountToast ==
    /\ \E accountIndex \in ToastIndices :
          ret' = [op |-> "shouldShowAccountToast", index |-> accountIndex, at |-> now,
                  value |-> shouldShowAccountToast(manager, accountIndex,
                                                   TOAST_DEBOUNCE_MS, now)]
    /\ UNCHANGED <<now, manager, disk, pc, call, outcome, hist>>

HelperMarkToastShown ==
    /\ \E accountIndex \in ToastIndices :
          /\ manager' = markToastShown(manager, accountIndex, now)
          /\ call' = [marked |-> TRUE, index |-> accountIndex, at |-> now]
    /\ ret' = [op |-> "markToastShown"]
    /\ UNCHANGED <<now, disk, pc, outcome, hist>>

NextHelpers ==
    \/ HelperTick
    \/ HelperShouldRefreshToken
    \/ HelperShouldShowAccountToast
    \/ HelperMarkToastShown

SpecHelpers == InitHelpers /\ [][NextHelpers]_vars

(* C25: the expiry check answers true exactly when the auth is not OAuth, *)
(* no access credential is held, or the current time is at or after the    *)
(* expiry instant (the instant of expiry itself counts as expired).        *)
C25_ExpiredAtOrAfter ==
    ret.op = "shouldRefreshToken" =>
        ret.value = (\/ ret.auth.type # "oauth"
                     \/ ret.auth.access = ""
                     \/ ret.at >= ret.auth.expires)

(* C26: shouldShowAccountToast(i) answers false exactly when i is the     *)
(* index last passed to markToastShown and less than the debounce window   *)
(* of 30 s has passed since; true for any other index and for i again      *)
(* once the window has passed.                                             *)
C26_ToastDebounce ==
    ret.op = "shouldShowAccountToast" =>
        ret.value = ~(/\ call.marked
                      /\ ret.index = call.index
                      /\ ret.at - call.at < 30000)

(* the index last notified is asked again after the window has passed *)
C26_Witness ==
    /\ ret.op = "shouldShowAccountToast"
    /\ call.marked
    /\ ret.index = call.index
    /\ call.at > 0
    /\ ret.at - call.at >= 30000
    /\ ret.value

----------------------------------------------------------------------------
(* Concurrent inbound calls: src/index.ts keeps one accountManager for all *)
(* calls of fetch(), and a call gives way to the others at each await.     *)
(* pc, call and outcome are functions of the caller here; each step below  *)
(* is the code of fetch() between two awaits, run by caller i.             *)

Callers == { 1, 2 }

ConcIdleCall ==
    [accountCount |-> 0, attempted |-> {}, account |-> NullAcc,
     accountAuth |-> [type |-> "oauth", access |-> "", refresh |-> "", expires |-> 0],
     storage |-> MissingFile, refreshes |-> 0]

(* the accounts file at the start of a session with concurrent calls *)
ConcFiles == FilesUpTo(MaxConcStored)

InitConc ==
    /\ now = 0
    /\ \E file \in ConcFiles, auth \in HostAuths :
          LET accountManager == loadFromDisk(auth, file, 0)
          IN  /\ manager = accountManager
              /\ disk = IF needsPersist(accountManager, loadAccounts(file), auth.refresh)
                        THEN saveToDisk(accountManager)
                        ELSE file
              /\ getAccountCount(accountManager) # 0
    /\ ret = NoRet
    /\ pc = [i \in Callers |-> "idle"]
    /\ call = [i \in Callers |-> ConcIdleCall]
    /\ outcome = [i \in Callers |-> NoOutcome]
    /\ hist = NoHist

(* the step of caller i ends at position q with locals c and outcome o *)
ConcGoto(i, q, c, o) ==
    /\ pc' = [pc EXCEPT ![i] = q]
    /\ call' = [call EXCEPT ![i] = c]
    /\ outcome' = [outcome EXCEPT ![i] = o]

(* lines 429-434 and 441-446 up to the await of saveToDisk *)
ConcCoolDown(i, m, p, c) ==
    LET m1 == markAccountCoolingDown(m, p, Num(AUTH_FAILURE_COOLDOWN_MS), "auth-failure", now)
    IN  /\ manager' = m1
        /\ ConcGoto(i, "saveCooldown", [c EXCEPT !.storage = saveToDisk(m1)], outcome[i])

(* lines 438-483 up to the await of the dispatch *)
ConcResolveAndDispatch(i, m, p, c) ==
    LET account == m.accounts[p]
        accountId == IF account.accountId = Undef
                     THEN extractAccountId(c.accountAuth.access)
                     ELSE account.accountId
        m1 == [m EXCEPT !.accounts[p].accountId = accountId]
        m2 == IF c.accountCount > 1
                 /\ shouldShowAccountToast(m1, account.index, TOAST_DEBOUNCE_MS, now)
              THEN markToastShown(m1, account.index, now)
              ELSE m1
    IN  IF ~Truthy(accountId)
        THEN ConcCoolDown(i, m, p, c)
        ELSE /\ manager' = m2
             /\ ConcGoto(i, "dispatch", c, outcome[i])

(* lines 383-409 *)
ConcStartCall(i) ==
    /\ pc[i] = "idle"
    /\ \E body \in InboundBodies :
          IF bodyParses(body)
          THEN ConcGoto(i, "loop",
                        [ConcIdleCall EXCEPT !.accountCount = getAccountCount(manager)],
                        NoOutcome)
          ELSE ConcGoto(i, "threw", ConcIdleCall,
                        [NoOutcome EXCEPT !.kind = "threw", !.cause = "JSON.parse"])
    /\ UNCHANGED <<now, manager, disk, ret, hist>>

(* lines 527-542 *)
ConcExhausted(i, m) ==
    LET r == getMinWaitTime(m, now)
    IN  /\ manager' = r.m
        /\ ConcGoto(i, "done", call[i],
                    [NoOutcome EXCEPT !.kind = "synthesized", !.status = 429,
                                      !.waitMs = r.ret, !.free = FreeSet(r.m, now),
                                      !.at = now])

(* lines 411-427 up to the await of the refresh, or on to the dispatch *)
ConcLoopHead(i) ==
    /\ pc[i] = "loop"
    /\ IF Cardinality(call[i].attempted) < MathMax(1, call[i].accountCount)
       THEN LET r == getCurrentOrNext(manager, now)
            IN  IF loopBreaks(r.m, r.ret, call[i].attempted)
                THEN ConcExhausted(i, r.m)
                ELSE LET c == [call[i] EXCEPT
                                  !.attempted = @ \cup { r.m.accounts[r.ret].index },
                                  !.account = r.ret,
                                  !.accountAuth = toAuthDetails(r.m.accounts[r.ret])]
                     IN  IF shouldRefreshToken(c.accountAuth, now)
                         THEN /\ manager' = r.m
                              /\ ConcGoto(i, "refresh",
                                          [c EXCEPT !.refreshes = @ + 1], outcome[i])
                         ELSE ConcResolveAndDispatch(i, r.m, r.ret, c)
       ELSE ConcExhausted(i, manager)
    /\ UNCHANGED <<now, disk, ret, hist>>

ConcRefreshFailed(i) ==
    /\ pc[i] = "refresh"
    /\ ConcCoolDown(i, manager, call[i].account, call[i])
    /\ UNCHANGED <<now, disk, ret, hist>>

ConcRefreshSucceeded(i) ==
    /\ pc[i] = "refresh"
    /\ \E access \in RefreshedAccess :
          LET auth == [type |-> "oauth", access |-> access,
                       refresh |-> call[i].accountAuth.refresh,
                       expires |-> now + TokenLifetimeMs]
              m1 == updateFromAuth(manager, call[i].account, auth)
          IN  /\ manager' = m1
              /\ ConcGoto(i, "saveRefreshed",
                          [call[i] EXCEPT !.accountAuth = auth, !.storage = saveToDisk(m1)],
                          outcome[i])
    /\ UNCHANGED <<now, disk, ret, hist>>

ConcSaveRefreshedOk(i) ==
    /\ pc[i] = "saveRefreshed"
    /\ disk' = call[i].storage
    /\ ConcResolveAndDispatch(i, manager, call[i].account, call[i])
    /\ UNCHANGED <<now, ret, hist>>

ConcSaveRefreshedFailed(i) ==
    /\ pc[i] = "saveRefreshed"
    /\ ConcCoolDown(i, manager, call[i].account, call[i])
    /\ UNCHANGED <<now, disk, ret, hist>>

ConcSaveCooldownOk(i) ==
    /\ pc[i] = "saveCooldown"
    /\ disk' = call[i].storage
    /\ ConcGoto(i, "loop", call[i], outcome[i])
    /\ UNCHANGED <<now, manager, ret, hist>>

ConcThrew(i, cause) ==
    ConcGoto(i, "threw", call[i], [NoOutcome EXCEPT !.kind = "threw", !.cause = cause])

(* a saveToDisk outside the try block, a dispatch or a stream read fails *)
ConcAwaitFailed(i) ==
    /\ pc[i] \in { "saveCooldown", "saveRateLimit", "dispatch", "success" }
    /\ ConcThrew(i, IF pc[i] = "dispatch" THEN "fetch"
                    ELSE IF pc[i] = "success" THEN "stream" ELSE "saveToDisk")
    /\ UNCHANGED <<now, manager, disk, ret, hist>>

(* lines 480-524 *)
ConcResponded(i) ==
    /\ pc[i] = "dispatch"
    /\ \E status \in Statuses, retryAfter \in RetryAfterHeaders :
          /\ status # 429 => retryAfter = NoTime
          /\ LET p == call[i].account
                 e == handleErrorResponse(status, retryAfter)
             IN  IF status = 200
                 THEN /\ ConcGoto(i, "success", call[i], outcome[i])
                      /\ UNCHANGED manager
                 ELSE IF takesRateLimitBranch(e)
                 THEN LET m1 == markSwitched(
                                    markRateLimited(manager, p, Num(e.retryAfterMs), now),
                                    p, "rate-limit")
                      IN  /\ manager' = m1
                          /\ ConcGoto(i, "saveRateLimit",
                                      [call[i] EXCEPT !.storage = saveToDisk(m1)], outcome[i])
                 ELSE /\ ConcGoto(i, "done", call[i],
                                  [NoOutcome EXCEPT !.kind = "response", !.status = e.status,
                                                    !.account = p])
                      /\ UNCHANGED manager
    /\ UNCHANGED <<now, disk, ret, hist>>

ConcSuccessReturned(i) ==
    /\ pc[i] = "success"
    /\ ConcGoto(i, "done", call[i],
                [NoOutcome EXCEPT !.kind = "response", !.status = 200,
                                  !.account = call[i].account])
    /\ UNCHANGED <<now, manager, disk, ret, hist>>

(* lines 504-519 *)
ConcSaveRateLimitOk(i) ==
    /\ pc[i] = "saveRateLimit"
    /\ disk' = call[i].storage
    /\ LET index == manager.accounts[call[i].account].index
       IN  manager' = IF getAccountCount(manager) > 1
                         /\ shouldShowAccountToast(manager, index, TOAST_DEBOUNCE_MS, now)
                      THEN markToastShown(manager, index, now)
                      ELSE manager
    /\ ConcGoto(i, "loop", call[i], outcome[i])
    /\ UNCHANGED <<now, ret, hist>>

ConcStep(i) ==
    \/ ConcStartCall(i)
    \/ ConcLoopHead(i)
    \/ ConcRefreshFailed(i)
    \/ ConcRefreshSucceeded(i)
    \/ ConcSaveRefreshedOk(i)
    \/ ConcSaveRefreshedFailed(i)
    \/ ConcSaveCooldownOk(i)
    \/ ConcAwaitFailed(i)
    \/ ConcResponded(i)
    \/ ConcSuccessReturned(i)
    \/ ConcSaveRateLimitOk(i)

NextConc == \E i \in Callers : ConcStep(i)

SpecConc == InitConc /\ [][NextConc]_vars

(* C27: nothing keeps two concurrent calls apart: while one call awaits   *)
(* the refresh of the active account, which it obtained from               *)
(* getCurrentOrNext, another call that reaches its first selection obtains *)
(* the same account and finds the same expired credential, so it issues a  *)
(* refresh for it too.                                                     *)
C27_NoMutualExclusion ==
    \A i, j \in Callers :
        (i # j /\ pc[i] = "refresh" /\ pc[j] = "loop" /\ call[j].attempted = {}
               /\ getCurrentAccount(manager) = call[i].account) =>
            LET r == getCurrentOrNext(manager, now)
            IN  /\ r.ret = call[i].account
                /\ shouldRefreshToken(toAuthDetails(r.m.accounts[r.ret]), now)

(* both calls hold the same account and both await a refresh for it *)
C27_Witness ==
    /\ pc[1] = "refresh"
    /\ pc[2] = "refresh"
    /\ call[1].account = call[2].account
    /\ call[1].refreshes = 1
    /\ call[2].refreshes = 1

----------------------------------------------------------------------------
(* The selection rule of the pool, SpecPool *)

(* the available accounts of the pool, in pool order *)
AvailableSeq(m, t) ==
    SelectSeq(PosSeq(Len(m.accounts)), LAMBDA i : IsFree(m.accounts[i], t))

(* the step is a call of getCurrentOrNext *)
SelectionStep ==
    /\ hist'.calls = hist.calls + 1
    /\ ret'.op = "getCurrentOrNext"

ActiveAvailable(m, t) ==
    /\ getCurrentAccount(m) # NullAcc
    /\ IsFree(m.accounts[getCurrentAccount(m)], t)

(* C28: getCurrentOrNext() follows one rule in every state. If the active  *)
(* account is available it returns that account, stamps its lastUsed and   *)
(* leaves activeIndex and the cursor unchanged; otherwise it returns       *)
(* available[cursor mod |available|], available being the available        *)
(* accounts in pool order, makes that account the active one and increases *)
(* the cursor by exactly one. The cursor never decreases.                  *)
C28_SelectionRule ==
    [][ /\ manager'.cursor >= manager.cursor
        /\ SelectionStep =>
              LET available == AvailableSeq(manager, now)
              IN  IF ActiveAvailable(manager, now)
                  THEN /\ ret'.acc = getCurrentAccount(manager)
                       /\ manager'.accounts[ret'.acc].lastUsed = now
                       /\ manager'.activeIndex = manager.activeIndex
                       /\ manager'.cursor = manager.cursor
                  ELSE Len(available) > 0 =>
                       /\ ret'.acc = available[(manager.cursor % Len(available)) + 1]
                       /\ getCurrentAccount(manager') = ret'.acc
                       /\ manager'.cursor = manager.cursor + 1 ]_vars

(* the step is a call of markRateLimited or of markAccountCoolingDown, on  *)
(* the account ret'.acc with the number whose integer part is ret'.value   *)
MarkStep(op) ==
    /\ hist'.calls = hist.calls + 1
    /\ ret'.op = op

ClampedMs(x) == IF x < 0 THEN 0 ELSE x

AvailableIffNoWindowAhead(m, t) ==
    \A i \in 1..Len(m.accounts) :
        availableTest(m.accounts[i], t) <=> IsFree(m.accounts[i], t)

(* C29: rate limit and cooldown are independent windows. markRateLimited   *)
(* changes only the rateLimitResetTime of its account, to now + max(0,     *)
(* floor(ms)); markAccountCoolingDown changes only the coolingDownUntil    *)
(* and the cooldownReason of its account; neither touches the other        *)
(* window, another account, activeIndex or the cursor. An account is       *)
(* available iff neither of its two windows lies in the future.            *)
C29_IndependentWindows ==
    [][ /\ AvailableIffNoWindowAhead(manager, now)
        /\ AvailableIffNoWindowAhead(manager', now')
        /\ MarkStep("markRateLimited") =>
              manager' = [manager EXCEPT
                             !.accounts[ret'.acc].rateLimitResetTime =
                                 now + ClampedMs(ret'.value)]
        /\ MarkStep("markAccountCoolingDown") =>
              \E reason \in { "auth-failure", "network-error" } :
                  manager' = [manager EXCEPT
                                 !.accounts[ret'.acc].coolingDownUntil =
                                     now + ClampedMs(ret'.value),
                                 !.accounts[ret'.acc].cooldownReason = reason] ]_vars

(* an account carries a running rate limit and a running cooldown with     *)
(* different ends, the cooldown marked last                                *)
C29_Witness ==
    /\ ret.op = "markAccountCoolingDown"
    /\ manager.accounts[ret.acc].rateLimitResetTime > now
    /\ manager.accounts[ret.acc].coolingDownUntil > now
    /\ manager.accounts[ret.acc].coolingDownUntil # manager.accounts[ret.acc].rateLimitResetTime

----------------------------------------------------------------------------
(* The end of blocking, SpecPoolTime *)

Positions == 1..(MaxTimeStored + 1)

(* the last instant of the session *)
Horizon == MaxTicks * TickMs

InPool(q) == q <= Len(manager.accounts)

(* the ends of the windows of an account that are still running *)
RunningEnds(account, t) ==
    { e \in { account.rateLimitResetTime, account.coolingDownUntil } : e # NoTime /\ t < e }

(* blocked by windows that all end within the session *)
BlockedWithin(q) ==
    /\ InPool(q)
    /\ RunningEnds(manager.accounts[q], now) # {}
    /\ \A e \in RunningEnds(manager.accounts[q], now) : e <= Horizon

(* marked (again) with a window that outlasts the session *)
BlockedBeyond(q) ==
    /\ InPool(q)
    /\ \E e \in RunningEnds(manager.accounts[q], now) : e > Horizon

WindowsOver(q) ==
    /\ InPool(q)
    /\ RunningEnds(manager.accounts[q], now) = {}

(* getMinWaitTime and getCurrentOrNext treat the account as available:     *)
(* no wait is reported, the round robin reaches it, and it is returned     *)
(* when it is the active account                                           *)
Selectable(q) ==
    /\ InPool(q)
    /\ getMinWaitTime(manager, now).ret = 0
    /\ \E c \in 0..(Len(manager.accounts) - 1) :
           getNextAvailable([manager EXCEPT !.cursor = c], now).ret = q
    /\ getCurrentAccount(manager) = q => getCurrentOrNext(manager, now).ret = q

(* C30: blocking is never permanent and needs no explicit un-mark. An      *)
(* account whose windows have reached their end is treated as available by *)
(* getCurrentOrNext and getMinWaitTime at once, and, time advancing, an    *)
(* account blocked by windows that end within the session becomes          *)
(* selectable unless it is marked again with a window that outlasts the    *)
(* session.                                                                *)
C30_BlockingEnds ==
    /\ \A q \in Positions : [](WindowsOver(q) => Selectable(q))
    /\ \A q \in Positions : BlockedWithin(q) ~> (Selectable(q) \/ BlockedBeyond(q))

(* time has reached the end of a cooldown that nothing cleared, and the    *)
(* account is selectable                                                   *)
C30_Witness ==
    \E q \in Positions :
        /\ InPool(q)
        /\ manager.accounts[q].coolingDownUntil # NoTime
        /\ manager.accounts[q].coolingDownUntil > 0
        /\ now >= manager.accounts[q].coolingDownUntil
        /\ Selectable(q)

----------------------------------------------------------------------------
(* The active pointer across deduplication, SpecStore *)

(* the records of the file that normalizeAccountStorage lets through *)
ValidRecords(file) == SelectSeq(file.accounts, LAMBDA a : a.refreshToken # Undef)

(* the record at the stored activeIndex is an account record with a dedup  *)
(* key, and deduplication keeps another record for that key                *)
ActiveRemoved(file) ==
    /\ HasActiveRecord(file)
    /\ LET active == file.accounts[file.activeIndex + 1]
           position == Len(SelectSeq(SubSeq(file.accounts, 1, file.activeIndex + 1),
                                     LAMBDA a : a.refreshToken # Undef))
       IN  /\ active.refreshToken # Undef
           /\ Truthy(toAccountKey(active))
           /\ DedupScan(ValidRecords(file), 1, <<>>)[toAccountKey(active)] # position

(* the key under which the active account is looked up after               *)
(* deduplication: blank strings do not count                               *)
ActiveKeyOf(account) ==
    IF account.accountId # Undef /\ Trim(account.accountId) # "" THEN account.accountId
    ELSE IF account.refreshToken # Undef /\ Trim(account.refreshToken) # ""
         THEN account.refreshToken
    ELSE Undef

(* C31 as stated: when the record at the stored activeIndex is removed by  *)
(* deduplication, the normalized activeIndex is the stored activeIndex     *)
(* clamped into the bounds of the deduplicated list.                       *)
C31_RemovedActiveClamped ==
    (ret.op = "loadAccounts" /\ ActiveRemoved(disk)) =>
        ret.stored.activeIndex = clampIndex(disk.activeIndex, Len(ret.stored.accounts))

(* C31: when the record at the stored activeIndex is removed by            *)
(* deduplication, the normalized activeIndex is the position of the        *)
(* surviving record that carries the active record's key; it is the stored *)
(* activeIndex clamped into the bounds of the deduplicated list only when  *)
(* no surviving record carries that key.                                   *)
C31_RemovedActiveFollowsKey ==
    (ret.op = "loadAccounts" /\ ActiveRemoved(disk)) =>
        LET accounts == ret.stored.accounts
            activeIndex == ret.stored.activeIndex
            key == ActiveKeyOf(disk.accounts[disk.activeIndex + 1])
        IN  IF \E i \in 1..Len(accounts) : toAccountKey(accounts[i]) = key
            THEN /\ activeIndex \in 0..(Len(accounts) - 1)
                 /\ toAccountKey(accounts[activeIndex + 1]) = key
            ELSE activeIndex = clampIndex(disk.activeIndex, Len(accounts))

(* the active record lost to a record with the same key that now stands at *)
(* another position than the clamped stored activeIndex                    *)
C31_Witness ==
    /\ ret.op = "loadAccounts"
    /\ ActiveRemoved(disk)
    /\ ret.stored.activeIndex # clampIndex(disk.activeIndex, Len(ret.stored.accounts))
    /\ toAccountKey(ret.stored.accounts[ret.stored.activeIndex + 1])
          = toAccountKey(disk.accounts[disk.activeIndex + 1])

----------------------------------------------------------------------------
(* Payloads over several lines and malformed fragments, SpecSse *)

IsDataLine(l) == l.line = "data"

(* the lines are the data: lines of one event, closed or not by the empty  *)
(* line, and their contents joined are one JSON text                       *)
BodyOf(lines) ==
    IF Len(lines) > 0 /\ lines[Len(lines)].line = "empty"
    THEN SubSeq(lines, 1, Len(lines) - 1) ELSE lines

PayloadOf(lines) == [i \in 1..Len(BodyOf(lines)) |-> BodyOf(lines)[i].content]

IsOnePayload(lines) ==
    /\ Len(BodyOf(lines)) > 0
    /\ \A i \in 1..Len(BodyOf(lines)) : IsDataLine(BodyOf(lines)[i])
    /\ JsonParse(PayloadOf(lines)).ok

IsSplitPayload(lines) ==
    /\ IsOnePayload(lines)
    /\ Len(SelectSeq(PayloadOf(lines), LAMBDA c : c.kind # "blank")) > 1

(* C33: a JSON payload split over several consecutive data: lines of one   *)
(* event is parsed as one event equal to the joined payload, also when a   *)
(* continuation line is by itself valid JSON.                              *)
C33_SplitPayloadIsOneEvent ==
    (pc = "sse-parsed" /\ IsSplitPayload(call.lines)) =>
        call.events = << JsonParse(PayloadOf(call.lines)).value >>

(* the stream starts with k unparseable data: lines *)
IsFragment(lines, k) ==
    /\ k \in 1..Len(lines)
    /\ \A i \in 1..k : IsDataLine(lines[i]) /\ lines[i].content.kind = "garbage"

(* the lines after the fragment and after the empty line that may follow it *)
AfterFragment(lines, k) ==
    IF k < Len(lines) /\ lines[k + 1].line = "empty"
    THEN SubSeq(lines, k + 2, Len(lines))
    ELSE SubSeq(lines, k + 1, Len(lines))

(* C32: a malformed data: fragment never costs a later event: the          *)
(* well-formed event that follows unparseable data: lines is recorded,     *)
(* whether its payload is on one line or on several and whether or not an  *)
(* empty line separates it from the fragment.                              *)
C32_FragmentCostsNothing ==
    \A k \in 1..MaxLines :
        (pc = "sse-parsed" /\ IsFragment(call.lines, k)
                           /\ IsOnePayload(AfterFragment(call.lines, k))) =>
            call.events = << JsonParse(PayloadOf(AfterFragment(call.lines, k))).value >>

----------------------------------------------------------------------------
(* src/lib/accounts/manager.ts: the legacy AccountManager. manager holds   *)
(* accounts, currentIndex (the rotation cursor) and currentAccountIndex    *)
(* (the active pointer); ret observes the last call and the pool before    *)
(* it.                                                                     *)

LegacyTokens == << "r1", "r2", "r3", "r4" >>

(* the constructor, from a store of n accounts with the given activeIndex  *)
(* or from a refresh string of n accounts (activeIndex 0)                  *)
LegacyAccountManager(n, activeIndex) ==
    [accounts |-> [i \in 1..n |->
                      [index |-> i - 1, refreshToken |-> LegacyTokens[i],
                       lastSwitchReason |-> Undef]],
     currentIndex |-> activeIndex,
     currentAccountIndex |-> activeIndex]

legacyGetCurrentAccount(m) ==
    IF m.currentAccountIndex >= 0 /\ m.currentAccountIndex < Len(m.accounts)
    THEN m.currentAccountIndex + 1
    ELSE NullAcc

legacyMarkSwitched(m, p, reason) ==
    [m EXCEPT !.accounts[p].lastSwitchReason = reason,
              !.currentAccountIndex = m.accounts[p].index]

addAccount(m, refreshToken) ==
    [m EXCEPT !.accounts = Append(@, [index |-> Len(m.accounts),
                                      refreshToken |-> refreshToken,
                                      lastSwitchReason |-> Undef])]

(* splice(index, 1) *)
Splice(accounts, index) ==
    [i \in 1..(Len(accounts) - 1) |->
        IF i <= index THEN accounts[i] ELSE accounts[i + 1]]

removeAccount(m, index) ==
    IF index < 0 \/ index >= Len(m.accounts)
    THEN [m |-> m, ret |-> FALSE]
    ELSE LET spliced == Splice(m.accounts, index)
         IN  [m |-> [m EXCEPT !.accounts =
                                 [i \in 1..Len(spliced) |->
                                     [spliced[i] EXCEPT !.index = i - 1]]],
              ret |-> TRUE]

NoLegacyRet == [op |-> "none", index |-> 0, value |-> FALSE, before |-> <<>>]

InitLegacy ==
    /\ now = 0
    /\ \E n \in 1..MaxLegacyAccounts, activeIndex \in 0..(MaxLegacyAccounts - 1) :
          /\ activeIndex < n
          /\ manager = LegacyAccountManager(n, activeIndex)
    /\ disk = MissingFile
    /\ ret = NoLegacyRet
    /\ pc = "idle"
    /\ call = IdleCall
    /\ outcome = NoOutcome
    /\ hist = NoHist

LegacyCall(m, observed) ==
    /\ hist.calls < MaxLegacyOps
    /\ manager' = m
    /\ ret' = observed
    /\ hist' = [hist EXCEPT !.calls = hist.calls + 1]
    /\ UNCHANGED <<now, disk, pc, call, outcome>>

LegacyAddAccount ==
    /\ Len(manager.accounts) < Len(LegacyTokens)
    /\ LegacyCall(addAccount(manager, LegacyTokens[Len(LegacyTokens)]),
                  [op |-> "addAccount", index |-> 0, value |-> FALSE,
                   before |-> manager.accounts])

LegacyRemoveAccount ==
    \E index \in -1..Len(manager.accounts) :
        LET r == removeAccount(manager, index)
        IN  LegacyCall(r.m, [op |-> "removeAccount", index |-> index, value |-> r.ret,
                             before |-> manager.accounts])

LegacyMarkSwitched ==
    \E p \in 1..Len(manager.accounts) :
        LegacyCall(legacyMarkSwitched(manager, p, "rotation"),
                   [op |-> "markSwitched", index |-> p - 1, value |-> FALSE,
                    before |-> manager.accounts])

NextLegacy ==
    \/ LegacyAddAccount
    \/ LegacyRemoveAccount
    \/ LegacyMarkSwitched

SpecLegacy == InitLegacy /\ [][NextLegacy]_vars

(* C34: removeAccount of the legacy AccountManager preserves the pool      *)
(* invariants. After removing a valid index from a pool that stays         *)
(* non-empty the accounts carry the indices 0..N-1 in array order and      *)
(* getCurrentAccount() is non-null; an out-of-range index returns false    *)
(* and leaves the pool unchanged.                                          *)
C34_RemoveKeepsInvariants ==
    [][ (ret'.op = "removeAccount" /\ hist'.calls = hist.calls + 1) =>
           IF ret'.index \in 0..(Len(manager.accounts) - 1)
           THEN /\ ret'.value
                /\ Len(manager'.accounts) = Len(manager.accounts) - 1
                /\ \A i \in 1..Len(manager'.accounts) :
                       manager'.accounts[i].index = i - 1
                /\ (Len(manager'.accounts) > 0 /\ legacyGetCurrentAccount(manager) # NullAcc)
                       => legacyGetCurrentAccount(manager') # NullAcc
           ELSE /\ ~ret'.value
                /\ manager' = manager ]_vars

----------------------------------------------------------------------------
(* Concurrent calls and the windows of the pool, SpecConc *)

(* caller i sends its request in this step *)
Dispatches(i) == pc[i] # "dispatch" /\ pc'[i] = "dispatch"

(* C35: even with concurrent inbound calls no outbound request is          *)
(* dispatched with an account that is rate-limited or cooling down at the  *)
(* moment of dispatch.                                                     *)
C35_DispatchedAccountAvailable ==
    [][ \A i \in Callers :
           Dispatches(i) => IsFree(manager'.accounts[call'[i].account], now') ]_vars

(* the account holds an access credential that has not expired and its    *)
(* identity is known                                                       *)
HoldsValidCredential(account, t) ==
    /\ account.access # Undef
    /\ account.access # ""
    /\ account.expires # NoTime
    /\ account.expires > t
    /\ \/ Truthy(account.accountId)
       \/ Truthy(extractAccountId(account.access))

(* the step places account p in auth-failure cooldown *)
PlacedInCooldown(p) ==
    /\ manager'.accounts[p].coolingDownUntil # manager.accounts[p].coolingDownUntil
    /\ manager'.accounts[p].cooldownReason = "auth-failure"

(* C36: an account that holds a valid, unexpired access credential and a   *)
(* known identity is never put into auth-failure cooldown, also when two   *)
(* concurrent calls refresh the same account or when the store write that  *)
(* follows a successful refresh fails.                                     *)
C36_CooldownOnlyOnOwnFailure ==
    [][ \A p \in 1..Len(manager.accounts) :
           PlacedInCooldown(p) => ~HoldsValidCredential(manager.accounts[p], now) ]_vars

----------------------------------------------------------------------------
(* src/index.ts: the login flow, the account tools and the persists of a   *)
(* running session. manager is cachedAccountManager, disk the accounts     *)
(* file; call holds the host credential of the session and the refresh     *)
(* credentials that login flows wrote; ret observes the last operation.    *)

(* the last of the positions, counted from 1; 0: there is none *)
LastPosition(positions) ==
    IF Len(positions) = 0 THEN 0 ELSE positions[Len(positions)]

(* persistAccountPool for one result; loaded is what its loadAccounts()    *)
(* returns, read only when replaceAll is false                             *)
persistAccountPool(loaded, result, replaceAll, t) ==
    LET stored == IF replaceAll THEN NullStore ELSE loaded
        accounts == IF stored.isNull THEN <<>> ELSE stored.accounts
        accountId == extractAccountId(result.access)
        existingById ==
            IF Truthy(accountId)
            THEN LastPosition(SelectSeq(PosSeq(Len(accounts)),
                                        LAMBDA i : Truthy(accounts[i].accountId)
                                                   /\ accounts[i].accountId = accountId))
            ELSE 0
        existingByToken ==
            LastPosition(SelectSeq(PosSeq(Len(accounts)),
                                   LAMBDA i : Truthy(accounts[i].refreshToken)
                                              /\ accounts[i].refreshToken = result.refresh))
        existingIndex == IF existingById # 0 THEN existingById ELSE existingByToken
        written ==
            IF existingIndex = 0
            THEN Append(accounts,
                        [StoredRecord(accountId, result.refresh, t, NoTime, NoTime, Undef)
                            EXCEPT !.addedAt = t])
            ELSE LET existing == accounts[existingIndex]
                 IN  [accounts EXCEPT ![existingIndex] =
                         [existing EXCEPT
                             !.accountId = IF accountId = Undef THEN existing.accountId
                                           ELSE accountId,
                             !.refreshToken = result.refresh,
                             !.lastUsed = t]]
        activeIndex == IF replaceAll \/ stored.isNull THEN 0 ELSE stored.activeIndex
    IN  ObjectFile(written, MathMax(0, MathMin(activeIndex, Len(written) - 1)))

(* the number given to openai-accounts-switch: a finite number or not *)
SwitchNumbers ==
    { [finite |-> TRUE, value |-> k] : k \in 0..(MaxToolStored + 3) }
    \cup { [finite |-> FALSE, value |-> 0] }

(* openai-accounts-switch: the file and the pool after it, and whether it  *)
(* reported the switch                                                     *)
accountsSwitch(file, m, index, t) ==
    LET storage == loadAccounts(file)
        targetIndex == index.value - 1
    IN  IF storage.isNull \/ Len(storage.accounts) = 0
        THEN [file |-> file, m |-> m, switched |-> FALSE]
        ELSE IF ~index.finite \/ targetIndex < 0 \/ targetIndex >= Len(storage.accounts)
        THEN [file |-> file, m |-> m, switched |-> FALSE]
        ELSE LET r == setActiveIndex(m, targetIndex, t)
             IN  [file |-> saveToDisk(r.m), m |-> r.m, switched |-> TRUE]

(* the tokens a login flow obtained *)
LoginResults ==
    { [access |-> "tokB", refresh |-> "r4"],
      [access |-> "tokN", refresh |-> "r5"] }

ToolFiles == FilesUpTo(MaxToolStored)

NoToolRet == [op |-> "none", switched |-> FALSE, finite |-> TRUE, target |-> 0, chosen |-> Undef]

InitTools ==
    /\ now = 0
    /\ \E file \in ToolFiles, auth \in HostAuths :
          LET accountManager == loadFromDisk(auth, file, 0)
          IN  /\ manager = accountManager
              /\ disk = IF needsPersist(accountManager, loadAccounts(file), auth.refresh)
                        THEN saveToDisk(accountManager)
                        ELSE file
              /\ call = [auth |-> auth, written |-> {}]
    /\ ret = NoToolRet
    /\ pc = "idle"
    /\ outcome = NoOutcome
    /\ hist = NoHist

ToolStep ==
    /\ hist.calls < MaxToolOps
    /\ hist' = [hist EXCEPT !.calls = hist.calls + 1]
    /\ UNCHANGED <<now, pc, outcome>>

(* a login flow stores the tokens it obtained *)
LoginPersist ==
    /\ ToolStep
    /\ \E loaded \in { loadAccounts(disk) }, result \in LoginResults, replaceAll \in BOOLEAN :
          /\ disk' = persistAccountPool(loaded, result, replaceAll, now)
          /\ call' = [call EXCEPT !.written = @ \cup { result.refresh }]
          /\ ret' = [NoToolRet EXCEPT !.op = "persistAccountPool"]
    /\ UNCHANGED manager

(* the retry loop selects an account, the refresh fails, the cooldown is   *)
(* stored: lines 412-434                                                   *)
SessionCoolDown ==
    /\ ToolStep
    /\ LET r == getCurrentOrNext(manager, now)
       IN  /\ r.ret # NullAcc
           /\ manager' = markAccountCoolingDown(r.m, r.ret, Num(AUTH_FAILURE_COOLDOWN_MS),
                                                "auth-failure", now)
    /\ disk' = saveToDisk(manager')
    /\ ret' = [NoToolRet EXCEPT !.op = "saveToDisk"]
    /\ UNCHANGED call

(* the retry loop handles a 429: lines 495-504 *)
SessionRateLimit ==
    /\ ToolStep
    /\ \E p \in 1..Len(manager.accounts), x \in RetryNumbers :
          manager' = markSwitched(markRateLimited(manager, p, x, now), p, "rate-limit")
    /\ disk' = saveToDisk(manager')
    /\ ret' = [NoToolRet EXCEPT !.op = "saveToDisk"]
    /\ UNCHANGED call

(* openai-accounts-switch is run *)
ToolSwitch ==
    /\ ToolStep
    /\ \E index \in SwitchNumbers :
          LET r == accountsSwitch(disk, manager, index, now)
              storage == loadAccounts(disk)
              target == index.value - 1
          IN  /\ disk' = r.file
              /\ manager' = r.m
              /\ ret' = [op |-> "switch", switched |-> r.switched,
                         finite |-> index.finite, target |-> target,
                         chosen |-> IF r.switched
                                    THEN storage.accounts[target + 1].refreshToken
                                    ELSE Undef]
    /\ UNCHANGED call

NextTools ==
    \/ LoginPersist
    \/ SessionCoolDown
    \/ SessionRateLimit
    \/ ToolSwitch

SpecTools == InitTools /\ [][NextTools]_vars

InStore(file, refreshToken) ==
    /\ file.content = "object"
    /\ \E i \in 1..Len(file.accounts) : file.accounts[i].refreshToken = refreshToken

(* the step is a persist of the running session: saveToDisk from the retry *)
(* loop or from the switch tool                                            *)
OrchestratorPersist ==
    /\ hist'.calls = hist.calls + 1
    /\ ret'.op \in { "saveToDisk", "switch" }

(* C37: no lost update on the durable store: an account record that a      *)
(* login flow wrote to the store while the session is running is still in  *)
(* the store after any later persist of the session.                       *)
C37_NoLostUpdate ==
    [][ OrchestratorPersist =>
           \A token \in call.written :
               InStore(disk, token) => InStore(disk', token) ]_vars

(* a run of openai-accounts-switch *)
SwitchRun ==
    /\ hist'.calls = hist.calls + 1
    /\ ret'.op = "switch"

(* the number given to the tool names an account of the store *)
SwitchInRange ==
    /\ ret'.finite
    /\ ~loadAccounts(disk).isNull
    /\ ret'.target >= 0
    /\ ret'.target < Len(loadAccounts(disk).accounts)

StoreRefersTo(file, target, refreshToken) ==
    /\ file.content = "object"
    /\ file.activeIndex = target
    /\ target < Len(file.accounts)
    /\ file.accounts[target + 1].refreshToken = refreshToken

PoolRefersTo(m, target, refreshToken) ==
    /\ m.activeIndex = target
    /\ target < Len(m.accounts)
    /\ m.accounts[target + 1].refreshToken = refreshToken

SwitchSucceeds ==
    (SwitchRun /\ SwitchInRange /\ ret'.switched)
        => /\ StoreRefersTo(disk', ret'.target, ret'.chosen)
           /\ PoolRefersTo(manager', ret'.target, ret'.chosen)

SwitchRejects ==
    (SwitchRun /\ ~SwitchInRange)
        => /\ ~ret'.switched
           /\ disk' = disk
           /\ manager' = manager

(* C40: openai-accounts-switch with an in-range 1-based number leaves the  *)
(* store's activeIndex and the cached pool's active pointer on the chosen  *)
(* account when it reports success; with an out-of-range or non-finite     *)
(* number it reports an error and changes neither the store nor the pool.  *)
C40_SwitchBothOrNeither ==
    [][ SwitchSucceeds /\ SwitchRejects ]_vars

(* the two halves and the case of a store no login wrote to, for diagnosis *)
C40_Rejects == [][ SwitchRejects ]_vars
C40_SucceedsUnwritten == [][ call.written = {} => SwitchSucceeds ]_vars
(* a pool has just been built from the store and the host's credential *)
PoolBuilt == ret.op = "constructor"

DistinctRefresh(accounts) ==
    \A i, j \in 1..Len(accounts) :
        i # j => accounts[i].refreshToken # accounts[j].refreshToken

DistinctAccountId(accounts) ==
    \A i, j \in 1..Len(accounts) :
        (i # j /\ Truthy(accounts[i].accountId))
            => accounts[i].accountId # accounts[j].accountId

HoldersOfHostAccess(accounts, auth) ==
    { i \in 1..Len(accounts) : auth.present /\ accounts[i].access = auth.access }

C38_NoSharedRefresh == PoolBuilt => DistinctRefresh(manager.accounts)
C38_NoSharedAccountId == PoolBuilt => DistinctAccountId(manager.accounts)
C38_OneHostHolder ==
    PoolBuilt => Cardinality(HoldersOfHostAccess(manager.accounts, ret.auth)) <= 1

(* C38: after the pool is built from a deduplicated store and a host       *)
(* credential, no two of its accounts share a refresh credential, no two   *)
(* share an account identifier, and at most one holds the host's access    *)
(* credential.                                                             *)
C38_PoolAccountsDistinct ==
    /\ C38_NoSharedRefresh
    /\ C38_NoSharedAccountId
    /\ C38_OneHostHolder
(* the pool rebuilt from what saveToDisk writes, with the host credential  *)
(* the session was loaded with                                             *)
Rebuilt == loadFromDisk(call.auth, saveToDisk(manager), now)

SameAccount(a, b) ==
    /\ a.accountId = b.accountId
    /\ a.refreshToken = b.refreshToken
    /\ a.addedAt = b.addedAt
    /\ a.lastUsed = b.lastUsed
    /\ a.lastSwitchReason = b.lastSwitchReason

SameWindows(a, b) ==
    /\ a.rateLimitResetTime = b.rateLimitResetTime
    /\ a.coolingDownUntil = b.coolingDownUntil
    /\ a.cooldownReason = b.cooldownReason

IsHostAccount(account, auth) ==
    /\ auth.present
    /\ \/ account.refreshToken = auth.refresh
       \/ /\ Truthy(extractAccountId(auth.access))
          /\ account.accountId = extractAccountId(auth.access)

AccessKept(a, b, auth) ==
    IF IsHostAccount(a, auth)
    THEN b.access = auth.access /\ b.expires = auth.expires
    ELSE b.access = Undef

C39_SameAccounts ==
    /\ Len(Rebuilt.accounts) = Len(manager.accounts)
    /\ \A i \in 1..Len(manager.accounts) :
          i <= Len(Rebuilt.accounts) => SameAccount(manager.accounts[i], Rebuilt.accounts[i])
C39_SameWindows ==
    \A i \in 1..Len(manager.accounts) :
        i <= Len(Rebuilt.accounts) => SameWindows(manager.accounts[i], Rebuilt.accounts[i])
C39_SameActive == Rebuilt.activeIndex = manager.activeIndex
C39_AccessOfHostOnly ==
    \A i \in 1..Len(manager.accounts) :
        i <= Len(Rebuilt.accounts)
            => AccessKept(manager.accounts[i], Rebuilt.accounts[i], call.auth)

(* C39: saving a reachable pool with saveToDisk and rebuilding a pool from *)
(* that store with the same host credential gives the same accounts in the *)
(* same order, with the same rate-limit and cooldown windows and the same  *)
(* active account; only the access credentials of the accounts that are    *)
(* not the host's are dropped.                                             *)
C39_RoundTrip ==
    /\ C39_SameAccounts
    /\ C39_SameWindows
    /\ C39_SameActive
    /\ C39_AccessOfHostOnly
(* the pool's accounts are numbered by their positions *)
DenseIndices(m) == \A i \in 1..Len(m.accounts) : m.accounts[i].index = i - 1

(* the round trip for the pools whose accounts are numbered by position,   *)
(* and for those that also hold no account twice, for diagnosis            *)
C39_RoundTripDense == DenseIndices(manager) => C39_RoundTrip
C39_RoundTripDenseDistinct ==
    (/\ DenseIndices(manager)
     /\ DistinctRefresh(manager.accounts)
     /\ DistinctAccountId(manager.accounts)) => C39_RoundTrip
====
